---- MODULE Spec2Model ----
(***************************************************************************)
(* Takt scheduling and risk simulation engine (TaktSimulator) of           *)
(* services/takt-service/src/modules/simulation/core/simulator.py.         *)
(*                                                                         *)
(* Dates are day numbers; day 0 is a Monday, so date.weekday() is d % 7    *)
(* (0 = Monday .. 6 = Sunday).  Floating point quantities are kept as      *)
(* exact rationals [num, den] or as scaled integers.                       *)
(***************************************************************************)
EXTENDS Integers, Sequences, FiniteSets, TLC

(***************************************************************************)
(* Bounds of the model.                                                    *)
(***************************************************************************)
MaxZones == 3
MaxWagons == 3
MaxDuration == 2
MaxBuffer == 1
MaxDelay == 2
MaxAssignments == 3
MaxChanges == 2
MaxIterations == 3
MaxScenarios == 3
MaxDate == 2

VARIABLES
    base_plan,         \* request.base_plan: zones, wagons, takt_time, start_date, working_days, buffer_days
    today,             \* what date.today() returns during the call
    zone_delays,       \* dict zone id -> accumulated delay (working days)
    assignments,       \* list of _Assignment returned by _recalculate_grid
    conflicts,         \* list of TradeStacking returned by _detect_stacking
    pc,                \* position of the call in progress
    grid_calls,        \* _recalculate_grid: arguments and return value of each call so far
    day_call,          \* a call of _next_working_day or _add_working_days: its locals and position
    sim_zones,         \* simulate_what_if: the zones as mutated so far
    sim_wagons,        \* simulate_what_if: the wagons as mutated so far
    sim_takt,          \* simulate_what_if: takt time as mutated so far
    sim_buffer,        \* simulate_what_if: buffer_days as mutated so far
    resource_impacts,  \* simulate_what_if: list of ResourceImpact
    warnings,          \* simulate_what_if: list of warning strings
    change,            \* the change of request.changes applied last
    n_changes,         \* how many changes of request.changes were applied
    applied,           \* request.changes[:n_changes], the changes applied so far
    result,            \* what the call returned, or the exception it raised
    mc_request,        \* simulate_monte_carlo: iterations, duration_variance_pct, delay_probability
    sampled,           \* simulate_monte_carlo: sampled[it], the duration matrix of iteration it
    total_durations,   \* simulate_monte_carlo: total duration of each iteration run so far
    critical_counts,   \* simulate_monte_carlo: per wagon, iterations whose critical path held it
    scenarios,         \* compare_scenarios: request.scenarios, a list of change lists
    results            \* compare_scenarios: the SimulationResult of each scenario run so far

whatif_vars == <<sim_zones, sim_wagons, sim_takt, sim_buffer, resource_impacts,
                 warnings, change, n_changes, applied, result>>

mc_vars == <<mc_request, sampled, total_durations, critical_counts>>

compare_vars == <<scenarios, results>>

vars == <<base_plan, today, zone_delays, assignments, conflicts, pc, grid_calls, day_call,
          whatif_vars,
          mc_vars, compare_vars>>

(***************************************************************************)
(* Generic helpers                                                         *)
(***************************************************************************)
Max2(a, b) == IF a >= b THEN a ELSE b
Min2(a, b) == IF a <= b THEN a ELSE b

\* dict.get(key, default)
DictGet(d, key, default) == IF key \in DOMAIN d THEN d[key] ELSE default

\* sorted(items, key=lambda x: x.sequence): ascending and stable (an item goes
\* after every earlier item of equal key)
RECURSIVE InsertBySequence(_, _)
InsertBySequence(x, sorted) ==
    IF sorted = <<>> THEN <<x>>
    ELSE IF x.sequence < Head(sorted).sequence THEN <<x>> \o sorted
    ELSE <<Head(sorted)>> \o InsertBySequence(x, Tail(sorted))

RECURSIVE SortedBySequenceFrom(_, _)
SortedBySequenceFrom(items, k) ==
    IF k = 0 THEN <<>>
    ELSE InsertBySequence(items[k], SortedBySequenceFrom(items, k - 1))

SortedBySequence(items) == SortedBySequenceFrom(items, Len(items))

(***************************************************************************)
(* Date helpers                                                            *)
(***************************************************************************)
Weekday(d) == d % 7

IsWorkingDay(d, working_days) == Weekday(d) \in working_days

\* _next_working_day: while d.weekday() not in working_days: d += 1
RECURSIVE NextWorkingDay(_, _)
NextWorkingDay(d, working_days) ==
    IF IsWorkingDay(d, working_days) THEN d
    ELSE NextWorkingDay(d + 1, working_days)

\* the counting loop of _add_working_days
RECURSIVE AdvanceWorkingDays(_, _, _)
AdvanceWorkingDays(current, remaining, working_days) ==
    IF remaining <= 0 THEN current
    ELSE IF IsWorkingDay(current + 1, working_days)
         THEN AdvanceWorkingDays(current + 1, remaining - 1, working_days)
         ELSE AdvanceWorkingDays(current + 1, remaining, working_days)

\* _add_working_days(start, days, working_days)
AddWorkingDays(start, days, working_days) ==
    IF days <= 0 THEN start
    ELSE AdvanceWorkingDays(NextWorkingDay(start, working_days), days, working_days)

\* _working_days_between(start, end, working_days): both ends inclusive
RECURSIVE CountWorkingDays(_, _, _)
CountWorkingDays(current, end, working_days) ==
    IF current > end THEN 0
    ELSE (IF IsWorkingDay(current, working_days) THEN 1 ELSE 0)
         + CountWorkingDays(current + 1, end, working_days)

\* a count that leaves the start day out
WorkingDaysAfter(start, end, working_days) ==
    IF end < start THEN 0 ELSE CountWorkingDays(start + 1, end, working_days)

WorkingDaysBetween(start, end, working_days) ==
    IF end < start THEN 0 ELSE CountWorkingDays(start, end, working_days)

(***************************************************************************)
(* Grid Scheduler: _recalculate_grid                                       *)
(***************************************************************************)
\* (a) earliest start after the previous wagon left this zone, plus buffer
NoBufferGapAfterPrevWagon(prev_wagon_end, buffer_days, working_days) ==
    AddWorkingDays(prev_wagon_end, buffer_days, working_days)

EarliestAfterPrevWagon(prev_wagon_end, buffer_days, working_days) ==
    AddWorkingDays(prev_wagon_end, buffer_days + 1, working_days)

\* (b) earliest start after this wagon finished the previous zone
SameDayAfterPrevZone(prev_zone_end, working_days) ==
    AddWorkingDays(prev_zone_end, 0, working_days)

EarliestAfterPrevZone(prev_zone_end, working_days) ==
    AddWorkingDays(prev_zone_end, 1, working_days)

\* "Ensure start falls on a working day"
NoSnapToWorkingDay(earliest, working_days) == earliest

SnapToWorkingDay(earliest, working_days) == NextWorkingDay(earliest, working_days)

\* a counter kept from one call to the next: it starts where the call before
\* stopped
PeriodCounterLeftOver ==
    IF grid_calls = <<>> THEN 0 ELSE Len(grid_calls[Len(grid_calls)].assignments)

\* "period_counter = 0": a local of the call, as finish_date and assignments
PeriodCounterAtEntry == 0

\* an end date one working day late: the start advanced by the whole duration
EndAfterDuration(earliest, duration, working_days) ==
    AddWorkingDays(earliest, duration, working_days)

\* "Compute end date": the start day is the first of the duration's days
EndOfCell(earliest, duration, working_days) ==
    AddWorkingDays(earliest, duration - 1, working_days)

RecalculateGrid(zones, wagons, takt_time, start_date, working_days, buffer_days, delays) ==
    LET sorted_zones == SortedBySequence(zones)
        sorted_wagons == SortedBySequence(wagons)
        n_wagons == Len(sorted_wagons)
        n_zones == Len(sorted_zones)
        \* cell k is (w_idx, z_idx) = (k \div n_zones, k % n_zones); acc holds the
        \* assignments of the cells before it, so finish_date[w][z] is
        \* acc[w * n_zones + z + 1].end_date
        RECURSIVE Cells(_, _)
        Cells(k, acc) ==
            IF k >= n_wagons * n_zones THEN acc
            ELSE LET w_idx == k \div n_zones
                     z_idx == k % n_zones
                     wagon == sorted_wagons[w_idx + 1]
                     zone == sorted_zones[z_idx + 1]
                     finish_date(w, z) == acc[w * n_zones + z + 1].end_date
                     after_wagon ==
                         IF w_idx > 0
                         THEN Max2(EarliestAfterPrevWagon(finish_date(w_idx - 1, z_idx),
                                                          buffer_days, working_days),
                                   start_date)
                         ELSE start_date
                     after_zone ==
                         IF z_idx > 0
                         THEN Max2(EarliestAfterPrevZone(finish_date(w_idx, z_idx - 1),
                                                         working_days),
                                   after_wagon)
                         ELSE after_wagon
                     zone_delay == DictGet(delays, zone.id, 0)
                     delayed ==
                         IF zone_delay > 0
                         THEN AddWorkingDays(after_zone, zone_delay, working_days)
                         ELSE after_zone
                     earliest == SnapToWorkingDay(delayed, working_days)
                     duration == wagon.duration_days
                     end == EndOfCell(earliest, duration, working_days)
                 IN Cells(k + 1,
                          Append(acc, [wagon_id |-> wagon.id,
                                       wagon_name |-> wagon.name,
                                       zone_id |-> zone.id,
                                       zone_name |-> zone.name,
                                       period |-> PeriodCounterAtEntry + k,
                                       start_date |-> earliest,
                                       end_date |-> end,
                                       duration_days |-> duration]))
    IN IF n_zones = 0 \/ n_wagons = 0 THEN <<>> ELSE Cells(0, <<>>)

(***************************************************************************)
(* The deprecated takt-engine grid: generate_takt_grid (calculator.py)     *)
(***************************************************************************)
\* add_working_days of calculator.py: no snap of the start
LegacyAddWorkingDays(start, days, working_days) ==
    AdvanceWorkingDays(start, days, working_days)

\* buffer_offsets[i]: the buffer_after of the wagons before wagon i (0-based)
RECURSIVE BufferOffset(_, _)
BufferOffset(sorted_wagons, i) ==
    IF i = 0 THEN 0
    ELSE BufferOffset(sorted_wagons, i - 1) + sorted_wagons[i].buffer_after

\* zone-major, wagon-minor; the period comes from zone.sequence
GenerateTaktGrid(zones, wagons, start_date, takt_time, working_days) ==
    LET sorted_zones == SortedBySequence(zones)
        sorted_wagons == SortedBySequence(wagons)
        n_wagons == Len(sorted_wagons)
        CellOf(k) ==
            LET zone == sorted_zones[(k \div n_wagons) + 1]
                i == k % n_wagons
                wagon == sorted_wagons[i + 1]
                period == zone.sequence + i + BufferOffset(sorted_wagons, i)
                days_offset == (period - 1) * takt_time
                planned_start == LegacyAddWorkingDays(start_date, days_offset, working_days)
                planned_end == LegacyAddWorkingDays(planned_start, wagon.duration_days - 1,
                                                    working_days)
            IN [zone_id |-> zone.id,
                wagon_id |-> wagon.id,
                period_number |-> period,
                planned_start |-> planned_start,
                planned_end |-> planned_end]
    IN [k \in 1..(Len(sorted_zones) * n_wagons) |-> CellOf(k - 1)]

\* _grid_end_date: date.today() for an empty grid
RECURSIVE MaxEndDate(_)
MaxEndDate(asgs) ==
    IF Len(asgs) = 1 THEN asgs[1].end_date
    ELSE Max2(asgs[1].end_date, MaxEndDate(Tail(asgs)))

GridEndDate(asgs, current_date) ==
    IF asgs = <<>> THEN current_date ELSE MaxEndDate(asgs)

(***************************************************************************)
(* Stacking Detector: _detect_stacking                                     *)
(***************************************************************************)
\* a defect: ranges that only touch are not flagged
OverlapsStrictly(a, b) == a.start_date < b.end_date /\ b.start_date < a.end_date

\* a defect: ranges a day apart are flagged as well
OverlapsWithinADay(a, b) ==
    a.start_date <= b.end_date + 1 /\ b.start_date <= a.end_date + 1

\* "Check date overlap"
Overlaps(a, b) == a.start_date <= b.end_date /\ b.start_date <= a.end_date

\* a defect: the later of the two periods
StackingWithMaxPeriod(zone_id, a, b) ==
    [zone_id |-> zone_id,
     zone_name |-> a.zone_name,
     period |-> Max2(a.period, b.period),
     trades |-> <<a.wagon_name, b.wagon_name>>,
     start_date |-> Max2(a.start_date, b.start_date),
     end_date |-> Min2(a.end_date, b.end_date)]

\* the TradeStacking built for an overlapping pair
Stacking(zone_id, a, b) ==
    [zone_id |-> zone_id,
     zone_name |-> a.zone_name,
     period |-> Min2(a.period, b.period),
     trades |-> <<a.wagon_name, b.wagon_name>>,
     start_date |-> Max2(a.start_date, b.start_date),
     end_date |-> Min2(a.end_date, b.end_date)]

\* keys of zone_assignments in insertion order: zone ids by first appearance
RECURSIVE ZoneKeys(_, _)
ZoneKeys(asgs, seen) ==
    IF asgs = <<>> THEN <<>>
    ELSE IF Head(asgs).zone_id \in seen THEN ZoneKeys(Tail(asgs), seen)
    ELSE <<Head(asgs).zone_id>> \o ZoneKeys(Tail(asgs), seen \cup {Head(asgs).zone_id})

GroupOfZone(asgs, zone_id) == SelectSeq(asgs, LAMBDA a : a.zone_id = zone_id)

\* for i in range(n): for j in range(i + 1, n)
RECURSIVE PairsFrom(_, _, _, _)
PairsFrom(zone_id, zone_asgns, i, j) ==
    LET n == Len(zone_asgns) IN
    IF i > n THEN <<>>
    ELSE IF j > n THEN PairsFrom(zone_id, zone_asgns, i + 1, i + 2)
    ELSE (IF Overlaps(zone_asgns[i], zone_asgns[j])
          THEN <<Stacking(zone_id, zone_asgns[i], zone_asgns[j])>>
          ELSE <<>>)
         \o PairsFrom(zone_id, zone_asgns, i, j + 1)

RECURSIVE StackingOfZones(_, _)
StackingOfZones(asgs, keys) ==
    IF keys = <<>> THEN <<>>
    ELSE PairsFrom(Head(keys), GroupOfZone(asgs, Head(keys)), 1, 2)
         \o StackingOfZones(asgs, Tail(keys))

DetectStacking(asgs) == StackingOfZones(asgs, ZoneKeys(asgs, {}))

(***************************************************************************)
(* Change Applier: _apply_change                                           *)
(*                                                                         *)
(* The plan components travel as one record st: zones, wagons, takt_time,  *)
(* buffer_days, zone_delays, resource_impacts, warnings, and raised, the   *)
(* exception that left _apply_change ("none" when it returned).            *)
(***************************************************************************)
\* round(num / den), Python 3: to the nearest integer, ties to the even one.
\* The source rounds the float product d * (a / b); on the values of this model
\* (d, a, b below 15, or a quotient a / b that is a whole number) that float
\* rounds the same way as the exact quotient.
RoundHalfEven(num, den) ==
    LET n == IF den < 0 THEN -num ELSE num
        d == IF den < 0 THEN -den ELSE den
        q == n \div d
        r == n - q * d
    IN IF 2 * r < d THEN q
       ELSE IF 2 * r > d THEN q + 1
       ELSE IF q % 2 = 0 THEN q ELSE q + 1

\* _find_wagon / _find_zone: index of the first item with that id, 0 for None
FindIndex(items, id) ==
    IF \E i \in 1..Len(items) : items[i].id = id
    THEN CHOOSE i \in 1..Len(items) :
            /\ items[i].id = id
            /\ \A j \in 1..(i - 1) : items[j].id # id
    ELSE 0

Warn(st, text) == [st EXCEPT !.warnings = Append(@, text)]

\* d[key] = value
DictPut(d, key, value) ==
    [k \in DOMAIN d \cup {key} |-> IF k = key THEN value ELSE d[k]]

\* a ratio taken against one crew more than the new crew
ScaledByOneMoreCrew(duration_days, original_crew, new_crew) ==
    Max2(1, RoundHalfEven(duration_days * original_crew, new_crew + 1))

\* ratio = original_crew / new_crew; max(1, round(wagon.duration_days * ratio))
ScaledByCrew(duration_days, original_crew, new_crew) ==
    Max2(1, RoundHalfEven(duration_days * original_crew, new_crew))

ApplyAddCrew(params, st) ==
    LET trade_id == DictGet(params, "trade_id", "")
        additional == DictGet(params, "additional_crew", 1)
        k == FindIndex(st.wagons, trade_id)
    IN IF k = 0
       THEN Warn(st, "add_crew: trade '" \o trade_id \o "' not found, skipping.")
       ELSE LET wagon == st.wagons[k]
                original_crew == wagon.crew_size
                new_crew == original_crew + additional
            IN IF new_crew = 0
               THEN \* ratio = original_crew / new_crew
                    [st EXCEPT !.raised = "ZeroDivisionError"]
               ELSE LET new_duration ==
                            ScaledByCrew(wagon.duration_days, original_crew, new_crew)
                    IN [st EXCEPT
                          !.resource_impacts =
                              Append(@, [trade_id |-> wagon.id,
                                         trade_name |-> wagon.name,
                                         original_crew |-> original_crew,
                                         simulated_crew |-> new_crew,
                                         delta_crew |-> additional]),
                          !.wagons[k] = [wagon EXCEPT !.crew_size = new_crew,
                                                      !.duration_days = new_duration]]

ApplyChangeTaktTime(params, st) ==
    LET given == DictGet(params, "new_takt_time", st.takt_time)
        new_takt == IF given < 1 THEN 1 ELSE given
        st1 == IF given < 1
               THEN Warn(st, "change_takt_time: value must be >= 1, using 1.")
               ELSE st
        \* ratio = new_takt / takt_time if takt_time > 0 else 1
        Rescaled(d) == IF st.takt_time > 0
                       THEN Max2(1, RoundHalfEven(d * new_takt, st.takt_time))
                       ELSE Max2(1, d)
    IN [st1 EXCEPT
          !.wagons = [i \in 1..Len(st.wagons) |->
                         [st.wagons[i] EXCEPT !.duration_days = Rescaled(@)]],
          !.takt_time = new_takt]

ApplyMoveTrade(params, st) ==
    LET trade_id == DictGet(params, "trade_id", "")
        new_seq == DictGet(params, "new_sequence", 0)
        k == FindIndex(st.wagons, trade_id)
    IN IF k = 0
       THEN Warn(st, "move_trade: trade '" \o trade_id \o "' not found, skipping.")
       ELSE LET old_seq == st.wagons[k].sequence
                Shifted(w) ==
                    IF w.id = trade_id THEN w
                    ELSE IF old_seq < new_seq
                    THEN (IF old_seq < w.sequence /\ w.sequence <= new_seq
                          THEN [w EXCEPT !.sequence = @ - 1] ELSE w)
                    ELSE (IF new_seq <= w.sequence /\ w.sequence < old_seq
                          THEN [w EXCEPT !.sequence = @ + 1] ELSE w)
            IN [st EXCEPT
                  !.wagons = [i \in 1..Len(st.wagons) |->
                                 IF i = k THEN [st.wagons[i] EXCEPT !.sequence = new_seq]
                                 ELSE Shifted(st.wagons[i])]]

\* an add_buffer that skips the change when the trade it names is not found
ApplyAddBufferAfterKnownTrade(params, st) ==
    LET after_trade_id == DictGet(params, "after_trade_id", "")
        extra_buffer == DictGet(params, "buffer_days", 1)
    IN IF after_trade_id # "" /\ FindIndex(st.wagons, after_trade_id) = 0
       THEN Warn(st, "add_buffer: trade '" \o after_trade_id
                     \o "' not found, applying buffer globally.")
       ELSE [st EXCEPT !.buffer_days = @ + extra_buffer]

ApplyAddBuffer(params, st) ==
    LET after_trade_id == DictGet(params, "after_trade_id", "")
        extra_buffer == DictGet(params, "buffer_days", 1)
        st1 == IF after_trade_id # "" /\ FindIndex(st.wagons, after_trade_id) = 0
               THEN Warn(st, "add_buffer: trade '" \o after_trade_id
                             \o "' not found, applying buffer globally.")
               ELSE st
    IN [st1 EXCEPT !.buffer_days = @ + extra_buffer]

\* a delay that replaces the one the zone already has
LastDelay(delays, zone_id, delay) == delay

\* "zone_delays.get(zone_id, 0) + delay"
AccumulatedDelay(delays, zone_id, delay) ==
    DictGet(delays, zone_id, 0) + delay

ApplyDelayZone(params, st) ==
    LET zone_id == DictGet(params, "zone_id", "")
        delay == DictGet(params, "delay_days", 0)
    IN IF FindIndex(st.zones, zone_id) = 0
       THEN Warn(st, "delay_zone: zone '" \o zone_id \o "' not found, skipping.")
       ELSE [st EXCEPT !.zone_delays =
                DictPut(@, zone_id, AccumulatedDelay(st.zone_delays, zone_id, delay))]

ApplyRemoveTrade(params, st) ==
    LET trade_id == DictGet(params, "trade_id", "")
        k == FindIndex(st.wagons, trade_id)
    IN IF k = 0
       THEN Warn(st, "remove_trade: trade '" \o trade_id \o "' not found, skipping.")
       ELSE LET removed_seq == st.wagons[k].sequence
                kept == SelectSeq(st.wagons, LAMBDA w : w.id # trade_id)
            IN [st EXCEPT
                  !.wagons = [i \in 1..Len(kept) |->
                                 IF kept[i].sequence > removed_seq
                                 THEN [kept[i] EXCEPT !.sequence = @ - 1]
                                 ELSE kept[i]]]

\* id=f"{zone_id}_split_{i}"
SplitZoneId(zone_id, i) == zone_id \o "_split_" \o ToString(i)

\* a shift that counts the replaced zone among the new ones
ShiftedByCount(sequence, original_seq, n_new) ==
    IF sequence > original_seq THEN sequence + n_new ELSE sequence

\* "if z.sequence > original_seq: z.sequence += n_new - 1"
ShiftedSequence(sequence, original_seq, n_new) ==
    IF sequence > original_seq THEN sequence + n_new - 1 ELSE sequence

ApplySplitZone(params, st) ==
    LET zone_id == DictGet(params, "zone_id", "")
        split_names == DictGet(params, "split_into", <<>>)
        k == FindIndex(st.zones, zone_id)
    IN IF k = 0
       THEN Warn(st, "split_zone: zone '" \o zone_id \o "' not found, skipping.")
       ELSE IF Len(split_names) < 2
       THEN Warn(st, "split_zone: 'split_into' must have at least 2 names.")
       ELSE LET original_seq == st.zones[k].sequence
                n_new == Len(split_names)
                kept == SelectSeq(st.zones, LAMBDA z : z.id # zone_id)
                shifted == [i \in 1..Len(kept) |->
                               [kept[i] EXCEPT
                                   !.sequence = ShiftedSequence(@, original_seq, n_new)]]
                new_zones == [i \in 1..n_new |->
                                 [id |-> SplitZoneId(zone_id, i - 1),
                                  name |-> split_names[i],
                                  sequence |-> original_seq + i - 1]]
            IN [st EXCEPT !.zones = SortedBySequence(shifted \o new_zones)]

ApplyChange(chg, st) ==
    CASE chg.type = "add_crew" -> ApplyAddCrew(chg.parameters, st)
      [] chg.type = "change_takt_time" -> ApplyChangeTaktTime(chg.parameters, st)
      [] chg.type = "move_trade" -> ApplyMoveTrade(chg.parameters, st)
      [] chg.type = "add_buffer" -> ApplyAddBuffer(chg.parameters, st)
      [] chg.type = "delay_zone" -> ApplyDelayZone(chg.parameters, st)
      [] chg.type = "remove_trade" -> ApplyRemoveTrade(chg.parameters, st)
      [] chg.type = "split_zone" -> ApplySplitZone(chg.parameters, st)

(***************************************************************************)
(* Cost and risk helpers, flowline                                         *)
(***************************************************************************)
\* {w.id: w.field for w in wagons}.get(id, default): a later wagon of the same
\* id overrides an earlier one
LastOfId(wagons, id) ==
    CHOOSE i \in 1..Len(wagons) :
        /\ wagons[i].id = id
        /\ \A j \in (i + 1)..Len(wagons) : wagons[j].id # id

HasId(wagons, id) == \E i \in 1..Len(wagons) : wagons[i].id = id

RECURSIVE TotalCost(_, _)
TotalCost(asgs, wagons) ==
    IF asgs = <<>> THEN 0
    ELSE LET a == Head(asgs)
             cpd == IF HasId(wagons, a.wagon_id)
                    THEN wagons[LastOfId(wagons, a.wagon_id)].cost_per_day ELSE 0
             crew == IF HasId(wagons, a.wagon_id)
                     THEN wagons[LastOfId(wagons, a.wagon_id)].crew_size ELSE 1
         IN a.duration_days * cpd * crew + TotalCost(Tail(asgs), wagons)

\* a cost impact that leaves the cost of the original grid out
CostOfSimulatedGrid(orig_assignments, sim_assignments, orig_wagons, wagons) ==
    TotalCost(sim_assignments, wagons)

ComputeCostImpact(orig_assignments, sim_assignments, orig_wagons, wagons) ==
    TotalCost(sim_assignments, wagons) - TotalCost(orig_assignments, orig_wagons)

\* rationals [num, den] with den > 0
Rat(n, d) == [num |-> n, den |-> d]
RatLeq(a, b) == a.num * b.den <= b.num * a.den
RatLess(a, b) == a.num * b.den < b.num * a.den
RatClamp(lo, hi, x) == IF RatLess(x, lo) THEN lo ELSE IF RatLess(hi, x) THEN hi ELSE x

\* a score whose schedule component is not kept within [-1, 1]
RiskScoreUnclamped(delta_days, stacking_count, n_zones, n_wagons) ==
    LET max_cells == Max2(n_zones * n_wagons, 1)
        schedule_risk == Rat(delta_days, Max2(max_cells, 20))
        ratio == Rat(stacking_count, max_cells)
        stacking_risk == IF RatLess(Rat(1, 1), ratio) THEN Rat(1, 1) ELSE ratio
        combined == Rat(6 * schedule_risk.num * stacking_risk.den
                          + 4 * stacking_risk.num * schedule_risk.den,
                        10 * schedule_risk.den * stacking_risk.den)
    IN RatClamp(Rat(-1, 1), Rat(1, 1), combined)

\* _compute_risk_score, exact
ComputeRiskScore(delta_days, stacking_count, n_zones, n_wagons) ==
    LET max_cells == Max2(n_zones * n_wagons, 1)
        schedule_risk == RatClamp(Rat(-1, 1), Rat(1, 1),
                                  Rat(delta_days, Max2(max_cells, 20)))
        ratio == Rat(stacking_count, max_cells)
        stacking_risk == IF RatLess(Rat(1, 1), ratio) THEN Rat(1, 1) ELSE ratio
        \* 0.6 * schedule_risk + 0.4 * stacking_risk
        combined == Rat(6 * schedule_risk.num * stacking_risk.den
                          + 4 * stacking_risk.num * schedule_risk.den,
                        10 * schedule_risk.den * stacking_risk.den)
    IN RatClamp(Rat(-1, 1), Rat(1, 1), combined)

\* round(risk_score, 4), in ten-thousandths
RoundedRisk(risk) == RoundHalfEven(risk.num * 10000, risk.den)

\* _compute_flowline: zone names in sequence order, and per wagon name its segments
ComputeFlowline(asgs, zones) ==
    [zones |-> LET sz == SortedBySequence(zones) IN [i \in 1..Len(sz) |-> sz[i].name],
     trades |-> [n \in { asgs[i].wagon_name : i \in 1..Len(asgs) } |->
                    LET own == SelectSeq(asgs, LAMBDA a : a.wagon_name = n)
                    IN [i \in 1..Len(own) |->
                           [zone |-> own[i].zone_name, zone_id |-> own[i].zone_id,
                            start |-> own[i].start_date, end |-> own[i].end_date,
                            duration_days |-> own[i].duration_days]]]]

(***************************************************************************)
(* Inputs                                                                  *)
(***************************************************************************)
ZoneId(i) == "Z" \o ToString(i)
WagonId(i) == "W" \o ToString(i)

ZoneList(n) ==
    [i \in 1..n |-> [id |-> ZoneId(i), name |-> "Zone " \o ToString(i), sequence |-> i]]

Durations == {1, MaxDuration}

\* duration_days carries no bound in the schema: the first wagon may have 0
FirstDurations == {0} \cup Durations

WagonLists(n, first_durations, durations, crews) ==
    { [i \in 1..n |-> [id |-> WagonId(i), name |-> "Trade " \o ToString(i),
                       sequence |-> i, duration_days |-> d[i],
                       crew_size |-> c[i], cost_per_day |-> 100]] :
        d \in { f \in [1..n -> first_durations \cup durations] :
                    \A i \in 2..n : f[i] \in durations },
        c \in [1..n -> crews] }

\* working-day calendars: Mon-Fri, every day, Wednesday only, the weekend
Calendars == { {0, 1, 2, 3, 4}, 0..6, {2}, {5, 6} }

\* a Monday, a Friday, a Saturday and a Sunday
StartDates == {0, 4, 5, 6}

ZoneIdsOf(zones) == { zones[i].id : i \in 1..Len(zones) }

(***************************************************************************)
(* SpecGrid: the Grid Scheduler applied to bounded inputs                  *)
(***************************************************************************)
\* no working-day helper followed step by step
NoDayCall == [name |-> "none"]

NoChange == [type |-> "none", parameters |-> <<>>]
NoResult == [outcome |-> "none"]

\* no what-if call in progress
WhatIfIdle ==
    /\ sim_zones = <<>>
    /\ sim_wagons = <<>>
    /\ sim_takt = 0
    /\ sim_buffer = 0
    /\ resource_impacts = <<>>
    /\ warnings = <<>>
    /\ change = NoChange
    /\ n_changes = 0
    /\ applied = <<>>
    /\ result = NoResult

NoRequest == [iterations |-> 0, duration_variance_pct |-> 0, delay_probability |-> 0]

\* no Monte Carlo call in progress
MCIdle ==
    /\ mc_request = NoRequest
    /\ sampled = <<>>
    /\ total_durations = <<>>
    /\ critical_counts = <<>>

\* no comparison in progress
CompareIdle ==
    /\ scenarios = <<>>
    /\ results = <<>>

Plan(zones, wagons, takt_time, start_date, working_days, buffer_days) ==
    [zones |-> zones, wagons |-> wagons, takt_time |-> takt_time,
     start_date |-> start_date, working_days |-> working_days,
     buffer_days |-> buffer_days]

\* three zones, two trades of five days each, no buffer, Monday start, Mon-Fri
FiveDayPlan ==
    Plan(ZoneList(3),
         [i \in 1..2 |-> [id |-> WagonId(i), name |-> "Trade " \o ToString(i), sequence |-> i,
                          duration_days |-> 5, crew_size |-> 1, cost_per_day |-> 100]],
         5, 0, {0, 1, 2, 3, 4}, 0)

InitGrid ==
    /\ \/ \E nz \in 0..MaxZones, nw \in 0..MaxWagons :
          \E wl \in WagonLists(nw, FirstDurations, Durations, {1}) :
          \E sd \in StartDates, cal \in Calendars, b \in 0..MaxBuffer :
              base_plan = Plan(ZoneList(nz), wl, 1, sd, cal, b)
       \/ base_plan = FiveDayPlan
    /\ zone_delays \in [ZoneIdsOf(base_plan.zones) -> {0, MaxDelay}]
    /\ today = 0
    /\ grid_calls = <<>>
    /\ day_call = NoDayCall
    /\ assignments = <<>>
    /\ conflicts = <<>>
    /\ pc = "grid_input"
    /\ WhatIfIdle
    /\ MCIdle
    /\ CompareIdle

Recalculate ==
    /\ pc = "grid_input"
    /\ assignments' = RecalculateGrid(base_plan.zones, base_plan.wagons,
                                      base_plan.takt_time, base_plan.start_date,
                                      base_plan.working_days, base_plan.buffer_days,
                                      zone_delays)
    /\ pc' = "grid_done"
    /\ UNCHANGED <<grid_calls, day_call, base_plan, today, zone_delays, conflicts, whatif_vars, mc_vars,
                   compare_vars>>

NextGrid == Recalculate

SpecGrid == InitGrid /\ [][NextGrid]_vars

(***************************************************************************)
(* Spec: simulate_what_if.  The initial state is the call after its locals *)
(* are set up (simulator.py:105-126); each change of request.changes is    *)
(* one step of the loop; Finish is the rest of the call.                   *)
(***************************************************************************)
\* the base plans of what-if requests: up to two zones and two wagons, Mon-Fri,
\* starting on a Monday, takt time 2
WhatIfWagonLists ==
    {<<>>} \cup WagonLists(1, FirstDurations, Durations, {1, 2})
           \cup { wl \in WagonLists(2, Durations, Durations, {1, 2}) :
                    wl[2].crew_size = 1 }

WhatIfTaktTime == 2

\* what date.today() may return
Todays == {100, 101}

InitWhatIf ==
    /\ \E nz \in 0..2 : \E wl \in WhatIfWagonLists :
           base_plan = Plan(ZoneList(nz), wl, WhatIfTaktTime, 0, {0, 1, 2, 3, 4}, 0)
    /\ today = 0
    /\ grid_calls = <<>>
    /\ day_call = NoDayCall
    /\ sim_zones = base_plan.zones
    /\ sim_wagons = base_plan.wagons
    /\ sim_takt = base_plan.takt_time
    /\ sim_buffer = base_plan.buffer_days
    /\ zone_delays = <<>>
    /\ resource_impacts = <<>>
    /\ warnings = <<>>
    /\ change = NoChange
    /\ n_changes = 0
    /\ applied = <<>>
    /\ assignments = <<>>
    /\ conflicts = <<>>
    /\ result = NoResult
    /\ MCIdle
    /\ CompareIdle
    /\ pc = "applying"

Change(type, parameters) == [type |-> type, parameters |-> parameters]

\* a call that mutates request.base_plan's own zones and wagons
SharedWithCaller(base, st) == [base EXCEPT !.zones = st.zones, !.wagons = st.wagons]

\* request.base_plan as the caller sees it once the locals of the call are st:
\* the zones and wagons are model_copy'ed before any change is applied, the
\* other fields are never assigned
CallerPlan(base, st) == base

\* a change loop that hands every change the zones and wagons of the request
\* instead of the ones the earlier changes left
StaleSimState ==
    [zones |-> base_plan.zones, wagons |-> base_plan.wagons, takt_time |-> sim_takt,
     buffer_days |-> sim_buffer, zone_delays |-> zone_delays,
     resource_impacts |-> resource_impacts, warnings |-> warnings, raised |-> "none"]

\* the locals of simulate_what_if that _apply_change reads and returns
SimState ==
    [zones |-> sim_zones, wagons |-> sim_wagons, takt_time |-> sim_takt,
     buffer_days |-> sim_buffer, zone_delays |-> zone_delays,
     resource_impacts |-> resource_impacts, warnings |-> warnings, raised |-> "none"]

\* the requests with more than two changes are those on plans of one zone and
\* one wagon with a crew of one
LongListPlan(base) ==
    /\ Len(base.zones) = 1
    /\ Len(base.wagons) = 1
    /\ base.wagons[1].crew_size = 1

\* one iteration of "for change in request.changes"
ApplyStep(chg) ==
    /\ pc = "applying"
    /\ n_changes < MaxChanges
    /\ n_changes > 1 => LongListPlan(base_plan)
    /\ change' = chg
    /\ n_changes' = n_changes + 1
    /\ applied' = Append(applied, chg)
    /\ LET st == ApplyChange(chg, SimState)
       IN /\ base_plan' = CallerPlan(base_plan, st)
          /\ IF st.raised # "none"
             THEN \* the exception leaves simulate_what_if: no SimulationResult
                  /\ pc' = "raised"
                  /\ result' = [outcome |-> "raised", exception |-> st.raised]
                  /\ UNCHANGED <<sim_zones, sim_wagons, sim_takt, sim_buffer, zone_delays,
                                 resource_impacts, warnings>>
             ELSE /\ pc' = "applying"
                  /\ sim_zones' = st.zones
                  /\ sim_wagons' = st.wagons
                  /\ sim_takt' = st.takt_time
                  /\ sim_buffer' = st.buffer_days
                  /\ zone_delays' = st.zone_delays
                  /\ resource_impacts' = st.resource_impacts
                  /\ warnings' = st.warnings
                  /\ UNCHANGED result
    /\ UNCHANGED <<grid_calls, day_call, today, assignments, conflicts, mc_vars, compare_vars>>

UnknownTrade == "W9"
UnknownZone == "Z9"

AddCrew ==
    \E t \in {WagonId(1), UnknownTrade}, k \in {-1, 0, 1} :
        ApplyStep(Change("add_crew", [trade_id |-> t, additional_crew |-> k]))

ChangeTaktTime ==
    \E n \in {0, 1} :
        ApplyStep(Change("change_takt_time", [new_takt_time |-> n]))

MoveTrade ==
    \E m \in { <<WagonId(1), 2>>, <<WagonId(2), 1>>, <<UnknownTrade, 1>> } :
        ApplyStep(Change("move_trade", [trade_id |-> m[1], new_sequence |-> m[2]]))

AddBuffer ==
    \E b \in { <<"", 1>>, <<UnknownTrade, 1>>, <<WagonId(1), -1>> } :
        ApplyStep(Change("add_buffer", [after_trade_id |-> b[1], buffer_days |-> b[2]]))

DelayZone ==
    \E z \in {ZoneId(1), UnknownZone} :
        ApplyStep(Change("delay_zone", [zone_id |-> z, delay_days |-> 1]))

RemoveTrade ==
    \E t \in {WagonId(1), UnknownTrade} :
        ApplyStep(Change("remove_trade", [trade_id |-> t]))

SplitZone ==
    \E z \in { <<ZoneId(1), <<"A", "B">> >>, <<ZoneId(1), <<"A">> >>,
               <<ZoneId(2), <<"A", "B", "C">> >>, <<UnknownZone, <<"A", "B">> >> } :
        ApplyStep(Change("split_zone", [zone_id |-> z[1], split_into |-> z[2]]))

\* simulate_what_if without its change loop: both grids, the metrics, the result
WhatIfResult(base, st, current_date) ==
    LET orig_assignments ==
            RecalculateGrid(base.zones, base.wagons, base.takt_time, base.start_date,
                            base.working_days, base.buffer_days, <<>>)
        orig_end == GridEndDate(orig_assignments, current_date)
        sim_assignments ==
            RecalculateGrid(st.zones, st.wagons, st.takt_time, base.start_date,
                            base.working_days, st.buffer_days, st.zone_delays)
        sim_end == GridEndDate(sim_assignments, current_date)
        stacking == DetectStacking(sim_assignments)
        delta_days == sim_end - orig_end
        cost_impact == ComputeCostImpact(orig_assignments, sim_assignments,
                                         base.wagons, st.wagons)
        risk_score == ComputeRiskScore(delta_days, Len(stacking),
                                       Len(st.zones), Len(st.wagons))
    IN [outcome |-> "returned",
        original_end_date |-> orig_end,
        simulated_end_date |-> sim_end,
        delta_days |-> delta_days,
        trade_stacking_conflicts |-> stacking,
        resource_impacts |-> st.resource_impacts,
        cost_impact |-> cost_impact,
        risk_score_change |-> RoundedRisk(risk_score),
        flowline_data |-> ComputeFlowline(sim_assignments, st.zones),
        warnings |-> st.warnings,
        sim_assignments |-> sim_assignments]

\* date.today() is read only for an empty grid
ReadsToday(base, st) ==
    \/ base.zones = <<>> \/ base.wagons = <<>>
    \/ st.zones = <<>> \/ st.wagons = <<>>

Finish ==
    /\ pc = "applying"
    /\ \E t \in Todays :
        /\ today' = IF ReadsToday(base_plan, SimState) THEN t ELSE today
        /\ result' = WhatIfResult(base_plan, SimState, t)
    /\ assignments' = result'.sim_assignments
    /\ conflicts' = result'.trade_stacking_conflicts
    /\ pc' = "done"
    /\ UNCHANGED <<grid_calls, day_call, base_plan, zone_delays, sim_zones, sim_wagons, sim_takt, sim_buffer,
                   resource_impacts, warnings, change, n_changes, applied, mc_vars, compare_vars>>

Next ==
    \/ AddCrew
    \/ ChangeTaktTime
    \/ MoveTrade
    \/ AddBuffer
    \/ DelayZone
    \/ RemoveTrade
    \/ SplitZone
    \/ Finish

Spec == InitWhatIf /\ [][Next]_vars

(***************************************************************************)
(* SpecMC: simulate_monte_carlo.  duration_variance_pct and                *)
(* delay_probability are percentages (0..100).  The source draws every     *)
(* iteration's durations up front; the draws are independent, so the model *)
(* draws the durations of an iteration when the iteration runs.  Wagon and *)
(* zone indices are 1-based here, 0-based in the source.                   *)
(***************************************************************************)
\* scale of the normal distribution, in units of 1/200 day:
\* np.maximum(planned * variance_pct, 0.5)
SamplingScale(planned, variance_pct) ==
    Max2(planned * variance_pct * 2, 100)

\* how far from the planned duration the model lets a draw fall
SampleDeviations == {-1, 0, 1}

\* ceil(max(rng.normal(loc = planned, scale), 1.0)): with a positive scale any
\* integer >= 1 can come out (the model keeps those within SampleDeviations of
\* the planned duration), with scale 0 the draw is the planned duration itself
SampledDurations(planned, variance_pct) ==
    IF SamplingScale(planned, variance_pct) > 0
    THEN { Max2(planned + e, 1) : e \in SampleDeviations }
    ELSE {Max2(planned, 1)}

\* delay_mask * delay_amount: rng.random() < delay_prob, rng.integers(1, max(takt, 2) + 1)
InjectedDelays(delay_pct, takt_time) ==
    IF delay_pct <= 0 THEN {0}
    ELSE IF delay_pct >= 100 THEN 1..Max2(takt_time, 2)
    ELSE 0..Max2(takt_time, 2)

\* the values sampled[it][w][z] can take
CellDurations(wagon, takt_time, request) ==
    { d + e : d \in SampledDurations(wagon.duration_days, request.duration_variance_pct),
              e \in InjectedDelays(request.delay_probability, takt_time) }

\* the matrices sampled[it] can be
SampledMatrices(wagons, n_zones, takt_time, request) ==
    LET cells == (1..Len(wagons)) \X (1..n_zones)
        values == UNION { CellDurations(wagons[w], takt_time, request) :
                            w \in 1..Len(wagons) }
    IN { dur \in [cells -> values] :
           \A c \in cells : dur[c] \in CellDurations(wagons[c[1]], takt_time, request) }

\* finish[w][z] of the forward pass
RECURSIVE FinishAt(_, _, _, _)
FinishAt(dur, buffer_days, w, z) ==
    LET prev_zone == IF z > 1 THEN FinishAt(dur, buffer_days, w, z - 1) ELSE 0
        prev_wagon == IF w > 1 THEN FinishAt(dur, buffer_days, w - 1, z) + buffer_days
                      ELSE 0
    IN Max2(prev_zone, prev_wagon) + dur[<<w, z>>]

\* a flag set the wrong way round: 1 when the zone predecessor is later
PredecessorInverted(dur, buffer_days, w, z) ==
    LET prev_zone == IF z > 1 THEN FinishAt(dur, buffer_days, w, z - 1) ELSE 0
        prev_wagon == IF w > 1 THEN FinishAt(dur, buffer_days, w - 1, z) + buffer_days
                      ELSE 0
    IN IF prev_zone > prev_wagon THEN 1 ELSE 0

\* predecessor[w][z]: 1 when the wagon predecessor is strictly later
PredecessorAt(dur, buffer_days, w, z) ==
    LET prev_zone == IF z > 1 THEN FinishAt(dur, buffer_days, w, z - 1) ELSE 0
        prev_wagon == IF w > 1 THEN FinishAt(dur, buffer_days, w - 1, z) + buffer_days
                      ELSE 0
    IN IF prev_wagon > prev_zone THEN 1 ELSE 0

\* a backward trace that ends when it reaches the first wagon or the first zone
RECURSIVE CriticalSetUpToEdge(_, _, _, _, _)
CriticalSetUpToEdge(dur, buffer_days, w, z, critical_set) ==
    IF w < 1 \/ z < 1 THEN critical_set
    ELSE LET visited == critical_set \cup {w}
         IN IF w = 1 \/ z = 1 THEN visited
            ELSE IF PredecessorAt(dur, buffer_days, w, z) = 1
                 THEN CriticalSetUpToEdge(dur, buffer_days, w - 1, z, visited)
                 ELSE CriticalSetUpToEdge(dur, buffer_days, w, z - 1, visited)

\* the backward trace from cell (w, z): the set of wagon indices it visits
RECURSIVE CriticalSet(_, _, _, _, _)
CriticalSet(dur, buffer_days, w, z, critical_set) ==
    IF w < 1 \/ z < 1 THEN critical_set
    ELSE LET visited == critical_set \cup {w}
         IN IF w = 1 /\ z = 1 THEN visited
            ELSE IF z = 1 THEN CriticalSet(dur, buffer_days, w - 1, z, visited)
            ELSE IF w = 1 THEN CriticalSet(dur, buffer_days, w, z - 1, visited)
            ELSE IF PredecessorAt(dur, buffer_days, w, z) = 1
                 THEN CriticalSet(dur, buffer_days, w - 1, z, visited)
                 ELSE CriticalSet(dur, buffer_days, w, z - 1, visited)

\* the cells (w, z) the backward trace visits from cell (w, z), in visiting order
RECURSIVE CriticalPath(_, _, _, _, _)
CriticalPath(dur, buffer_days, w, z, path) ==
    IF w < 1 \/ z < 1 THEN path
    ELSE LET visited == Append(path, <<w, z>>)
         IN IF w = 1 /\ z = 1 THEN visited
            ELSE IF z = 1 THEN CriticalPath(dur, buffer_days, w - 1, z, visited)
            ELSE IF w = 1 THEN CriticalPath(dur, buffer_days, w, z - 1, visited)
            ELSE IF PredecessorAt(dur, buffer_days, w, z) = 1
                 THEN CriticalPath(dur, buffer_days, w - 1, z, visited)
                 ELSE CriticalPath(dur, buffer_days, w, z - 1, visited)

\* ascending order, as np.percentile arranges the data
Unsorted(data) == data

RECURSIVE SortAscending(_)
SortAscending(data) ==
    IF data = <<>> THEN <<>>
    ELSE LET rest == SortAscending(Tail(data))
             x == Head(data)
             k == Cardinality({ i \in 1..Len(rest) : rest[i] <= x })
         IN SubSeq(rest, 1, k) \o <<x>> \o SubSeq(rest, k + 1, Len(rest))

\* int(x / 100): truncation towards zero
TruncateHundredths(x) ==
    IF x >= 0 THEN x \div 100 ELSE -((-x) \div 100)

\* int(np.percentile(data, q)): linear interpolation between the two order
\* statistics around position (n - 1) * q / 100, then truncation
Percentile(data, q) ==
    LET sorted == SortAscending(data)
        n == Len(sorted)
        position == (n - 1) * q
        lower == position \div 100
        fraction == position % 100
        below == sorted[lower + 1]
        above == IF lower + 2 <= n THEN sorted[lower + 2] ELSE below
    IN TruncateHundredths(below * 100 + fraction * (above - below))

RECURSIVE Sum(_)
Sum(data) == IF data = <<>> THEN 0 ELSE Head(data) + Sum(Tail(data))

\* floor of the square root, by bisection of lo..hi (lo * lo <= x < (hi + 1)^2)
RECURSIVE ISqrtBetween(_, _, _)
ISqrtBetween(x, lo, hi) ==
    IF lo >= hi THEN lo
    ELSE LET mid == (lo + hi + 1) \div 2
         IN IF mid * mid <= x THEN ISqrtBetween(x, mid, hi)
            ELSE ISqrtBetween(x, lo, mid - 1)

ISqrt(x) == ISqrtBetween(x, 0, 40000)

\* round(np.mean(data), 2), in hundredths
MeanHundredths(data) == RoundHalfEven(Sum(data) * 100, Len(data))

\* round(np.std(data), 2), in hundredths: the population standard deviation
\* sqrt(n * sum(x^2) - sum(x)^2) / n, rounded to the nearest hundredth
StdDevHundredths(data) ==
    LET n == Len(data)
        squares == [i \in 1..n |-> data[i] * data[i]]
        spread == n * Sum(squares) - Sum(data) * Sum(data)
    IN (ISqrt(40000 * spread) + n) \div (2 * n)

\* critical_trades: wagons on the critical path in at least 30% of the
\* iterations, else the three wagons with the highest counts
RECURSIVE TopCounts(_, _, _)
TopCounts(counts, chosen, k) ==
    LET left == { i \in 1..Len(counts) :
                    \A j \in 1..Len(chosen) : chosen[j] # i }
    IN IF k = 0 \/ left = {} THEN chosen
       ELSE LET best == CHOOSE i \in left :
                           \A j \in left : \/ counts[i] > counts[j]
                                           \/ counts[i] = counts[j] /\ i <= j
            IN TopCounts(counts, Append(chosen, best), k - 1)

\* a threshold no count reaches: n_iter * 30 for n_iter * 0.3
CriticalTradesOverAll(wagons, counts, n_iter) ==
    LET over == SelectSeq([i \in 1..Len(wagons) |-> i],
                          LAMBDA i : counts[i] >= 30 * n_iter)
        picked == IF over # <<>> THEN over ELSE TopCounts(counts, <<>>, 3)
    IN [k \in 1..Len(picked) |-> wagons[picked[k]].name]

CriticalTrades(wagons, counts, n_iter) ==
    LET over == SelectSeq([i \in 1..Len(wagons) |-> i],
                          LAMBDA i : 10 * counts[i] >= 3 * n_iter)
        picked == IF over # <<>> THEN over ELSE TopCounts(counts, <<>>, 3)
    IN [k \in 1..Len(picked) |-> wagons[picked[k]].name]

MCPlanOf(base) ==
    [zones |-> SortedBySequence(base.zones), wagons |-> SortedBySequence(base.wagons)]

\* Monte Carlo requests: plans of up to two zones and one or two wagons; delays
\* are injected in the single-cell plans
MCWagonLists ==
    WagonLists(1, Durations, Durations, {1}) \cup WagonLists(2, Durations, {1}, {1})

VariancePcts == {0, 20}
DelayPcts == {0, 50, 100}

\* more wagons than the fall-back of critical_trades lists
ManyWagons == 4

InitMC ==
    /\ \/ \E nz \in 0..2 : \E wl \in MCWagonLists :
          \E sd \in {0, 5}, b \in {0, MaxBuffer} :
              base_plan = Plan(ZoneList(nz), wl, WhatIfTaktTime, sd, {0, 1, 2, 3, 4}, b)
       \/ \E wl \in WagonLists(ManyWagons, {1}, {1}, {1}) :
              base_plan = Plan(ZoneList(1), wl, WhatIfTaktTime, 0, {0, 1, 2, 3, 4}, 0)
    /\ \E n \in 1..MaxIterations, v \in VariancePcts, dp \in DelayPcts :
           /\ dp > 0 => Len(base_plan.zones) * Len(base_plan.wagons) = 1
           /\ mc_request = [iterations |-> n, duration_variance_pct |-> v,
                            delay_probability |-> dp]
    /\ sampled = <<>>
    /\ total_durations = <<>>
    /\ critical_counts = [i \in 1..Len(base_plan.wagons) |-> 0]
    /\ today = 0
    /\ grid_calls = <<>>
    /\ day_call = NoDayCall
    /\ zone_delays = <<>>
    /\ assignments = <<>>
    /\ conflicts = <<>>
    /\ WhatIfIdle
    /\ CompareIdle
    /\ pc = "mc_iterating"

\* one pass of "for it in range(n_iter)"
Iterate ==
    /\ pc = "mc_iterating"
    /\ Len(total_durations) < mc_request.iterations
    /\ LET plan == MCPlanOf(base_plan)
           n_wagons == Len(plan.wagons)
           n_zones == Len(plan.zones)
       IN IF n_zones = 0
          THEN \* finish[-1, -1] on a matrix without columns
               /\ pc' = "raised"
               /\ result' = [outcome |-> "raised", exception |-> "IndexError"]
               /\ UNCHANGED <<total_durations, critical_counts>>
          ELSE \E dur \in SampledMatrices(plan.wagons, n_zones, base_plan.takt_time,
                                          mc_request) :
               LET critical_set == CriticalSet(dur, base_plan.buffer_days,
                                               n_wagons, n_zones, {})
               IN /\ total_durations' =
                        Append(total_durations,
                               FinishAt(dur, base_plan.buffer_days, n_wagons, n_zones))
                  /\ critical_counts' =
                        [i \in 1..n_wagons |->
                            critical_counts[i] + (IF i \in critical_set THEN 1 ELSE 0)]
                  /\ UNCHANGED <<pc, result>>
    /\ UNCHANGED <<grid_calls, day_call, base_plan, today, zone_delays, assignments, conflicts, mc_request,
                   sampled,
                   sim_zones, sim_wagons, sim_takt, sim_buffer, resource_impacts,
                   warnings, change, n_changes, applied, compare_vars>>

\* simulate_monte_carlo after its loop: baseline, statistics, result
MonteCarloResult(base, request, totals, counts, current_date) ==
    LET plan == MCPlanOf(base)
        det_assignments ==
            RecalculateGrid(plan.zones, plan.wagons, base.takt_time, base.start_date,
                            base.working_days, base.buffer_days, <<>>)
        det_end == GridEndDate(det_assignments, current_date)
        det_duration_days == WorkingDaysBetween(base.start_date, det_end,
                                                base.working_days)
        p50 == Percentile(totals, 50)
        p80 == Percentile(totals, 80)
        p95 == Percentile(totals, 95)
        on_time_count == Cardinality({ i \in 1..Len(totals) :
                                         totals[i] <= det_duration_days })
    IN [outcome |-> "returned",
        p50_end_date |-> AddWorkingDays(base.start_date, p50, base.working_days),
        p80_end_date |-> AddWorkingDays(base.start_date, p80, base.working_days),
        p95_end_date |-> AddWorkingDays(base.start_date, p95, base.working_days),
        mean_duration_days |-> MeanHundredths(totals),
        std_dev_days |-> StdDevHundredths(totals),
        on_time_probability |-> RoundHalfEven(on_time_count * 10000, request.iterations),
        critical_trades |-> CriticalTrades(plan.wagons, counts, request.iterations),
        \* locals of the call, kept for the properties
        p50 |-> p50, p80 |-> p80, p95 |-> p95,
        det_duration_days |-> det_duration_days]

FinishMC ==
    /\ pc = "mc_iterating"
    /\ Len(total_durations) = mc_request.iterations
    /\ result' = MonteCarloResult(base_plan, mc_request, total_durations,
                                  critical_counts, today)
    /\ pc' = "mc_done"
    /\ UNCHANGED <<grid_calls, day_call, base_plan, today, zone_delays, assignments, conflicts, mc_vars,
                   sim_zones, sim_wagons, sim_takt, sim_buffer, resource_impacts,
                   warnings, change, n_changes, applied, compare_vars>>

NextMC == Iterate \/ FinishMC

SpecMC == InitMC /\ [][NextMC]_vars

(***************************************************************************)
(* SpecMCOrder: the loop of simulate_monte_carlo over durations drawn up   *)
(* front, as in the source, with the passes of the loop body taken in any  *)
(* order.  A pass reads sampled[it] and writes total_durations[it] and     *)
(* critical_counts; the order of the source, 0 .. n_iter-1, is one of the  *)
(* orders.                                                                 *)
(***************************************************************************)
\* an entry of np.empty(n_iter) no pass has written yet
Unwritten == -1

\* a finish matrix kept from one pass to the next: the forward pass goes on
\* from the largest total written so far
FinishCarriedOver(totals) ==
    LET written == { totals[i] : i \in DOMAIN totals } \ {Unwritten}
    IN IF written = {} THEN 0 ELSE CHOOSE t \in written : \A u \in written : u <= t

\* "finish = np.zeros((n_wagons, n_zones))" in every pass
FinishAtEntry(totals) == 0

\* the requests of SpecMCOrder: plans of one or two zones and wagons under every
\* calendar for one iteration, plans of at most two cells for more iterations
InitMCOrder ==
    /\ \E nz \in 1..2 : \E wl \in MCWagonLists :
       \E sd \in {0, 5}, b \in {0, MaxBuffer}, cal \in Calendars :
           base_plan = Plan(ZoneList(nz), wl, WhatIfTaktTime, sd, cal, b)
    /\ \E n \in 1..MaxIterations, v \in VariancePcts, dp \in DelayPcts :
           /\ dp > 0 => Len(base_plan.zones) * Len(base_plan.wagons) = 1 /\ n = 1
           /\ n > 1 => /\ Len(base_plan.zones) * Len(base_plan.wagons) <= 2
                       /\ base_plan.working_days = {0, 1, 2, 3, 4}
                       /\ base_plan.start_date = 0
                       /\ v = 0
           /\ mc_request = [iterations |-> n, duration_variance_pct |-> v,
                            delay_probability |-> dp]
    /\ sampled \in [1..mc_request.iterations ->
                       SampledMatrices(MCPlanOf(base_plan).wagons, Len(base_plan.zones),
                                       base_plan.takt_time, mc_request)]
    /\ total_durations = [it \in 1..mc_request.iterations |-> Unwritten]
    /\ critical_counts = [i \in 1..Len(base_plan.wagons) |-> 0]
    /\ today = 0
    /\ grid_calls = <<>>
    /\ day_call = NoDayCall
    /\ zone_delays = <<>>
    /\ assignments = <<>>
    /\ conflicts = <<>>
    /\ WhatIfIdle
    /\ CompareIdle
    /\ pc = "mc_passes"

\* the loop body for iteration it
IterateAny ==
    /\ pc = "mc_passes"
    /\ \E it \in 1..mc_request.iterations :
        /\ total_durations[it] = Unwritten
        /\ LET plan == MCPlanOf(base_plan)
               n_wagons == Len(plan.wagons)
               n_zones == Len(plan.zones)
               dur == sampled[it]
               critical_set == CriticalSet(dur, base_plan.buffer_days, n_wagons, n_zones, {})
           IN /\ total_durations' =
                    [total_durations EXCEPT
                        ![it] = FinishAtEntry(total_durations)
                                + FinishAt(dur, base_plan.buffer_days, n_wagons, n_zones)]
              /\ critical_counts' =
                    [i \in 1..n_wagons |->
                        critical_counts[i] + (IF i \in critical_set THEN 1 ELSE 0)]
    /\ UNCHANGED <<grid_calls, day_call, base_plan, today, zone_delays, assignments, conflicts,
                   mc_request, sampled, pc, whatif_vars, compare_vars>>

\* simulate_monte_carlo after every pass ran
FinishAny ==
    /\ pc = "mc_passes"
    /\ \A it \in 1..mc_request.iterations : total_durations[it] # Unwritten
    /\ result' = MonteCarloResult(base_plan, mc_request, total_durations,
                                  critical_counts, today)
    /\ pc' = "mc_passes_done"
    /\ UNCHANGED <<grid_calls, day_call, base_plan, today, zone_delays, assignments, conflicts, mc_vars,
                   sim_zones, sim_wagons, sim_takt, sim_buffer, resource_impacts,
                   warnings, change, n_changes, applied, compare_vars>>

NextMCOrder == IterateAny \/ FinishAny

SpecMCOrder == InitMCOrder /\ [][NextMCOrder]_vars

(***************************************************************************)
(* SpecCompare: compare_scenarios.  Each scenario is a whole               *)
(* simulate_what_if call on the same base plan; scores are kept in         *)
(* thousandths.                                                            *)
(***************************************************************************)
InitialSimState(base) ==
    [zones |-> base.zones, wagons |-> base.wagons, takt_time |-> base.takt_time,
     buffer_days |-> base.buffer_days, zone_delays |-> <<>>,
     resource_impacts |-> <<>>, warnings |-> <<>>, raised |-> "none"]

\* the change loop of simulate_what_if; an exception ends it
RECURSIVE ApplyChanges(_, _)
ApplyChanges(changes, st) ==
    IF changes = <<>> \/ st.raised # "none" THEN st
    ELSE ApplyChanges(Tail(changes), ApplyChange(Head(changes), st))

SimulateWhatIf(base, changes, current_date) ==
    LET st == ApplyChanges(changes, InitialSimState(base))
    IN IF st.raised # "none"
       THEN [outcome |-> "raised", exception |-> st.raised]
       ELSE WhatIfResult(base, st, current_date)

\* whether that call reads date.today()
SimulateReadsToday(base, changes) ==
    LET st == ApplyChanges(changes, InitialSimState(base))
    IN st.raised = "none" /\ ReadsToday(base, st)

\* score of one result, in thousandths: delta_days + 5 * conflicts
\* + max(cost_impact, 0) / 1000 + 10 * risk_score_change
Score(res) ==
    1000 * res.delta_days
    + 5000 * Len(res.trade_stacking_conflicts)
    + Max2(res.cost_impact, 0)
    + res.risk_score_change

IsBetterOrEqual(score, best_score) == score <= best_score

\* "if score < best_score"
IsBetter(score, best_score) == score < best_score

\* the scoring loop from result i on; best_idx is 0-based, best_score starts
\* as infinity (has_best = FALSE)
RECURSIVE BestFrom(_, _, _, _, _)
BestFrom(res_list, i, best_idx, best_score, has_best) ==
    IF i > Len(res_list) THEN best_idx
    ELSE LET score == Score(res_list[i])
         IN IF ~has_best \/ IsBetter(score, best_score)
            THEN BestFrom(res_list, i + 1, i - 1, score, TRUE)
            ELSE BestFrom(res_list, i + 1, best_idx, best_score, has_best)

BestIndex(res_list) == BestFrom(res_list, 1, 0, 0, FALSE)

Abs(x) == IF x < 0 THEN -x ELSE x

\* three digits, zero padded
ThreeDigits(n) ==
    (IF n < 10 THEN "00" ELSE IF n < 100 THEN "0" ELSE "") \o ToString(n)

\* format(n, ",.0f") of a whole amount
RECURSIVE GroupThousands(_)
GroupThousands(n) ==
    IF n < 1000 THEN ToString(n)
    ELSE GroupThousands(n \div 1000) \o "," \o ThreeDigits(n % 1000)

RECURSIVE Join(_, _)
Join(parts, separator) ==
    IF parts = <<>> THEN ""
    ELSE IF Len(parts) = 1 THEN parts[1]
    ELSE parts[1] \o separator \o Join(Tail(parts), separator)

RecommendationReason(best, best_idx) ==
    LET schedule ==
            IF best.delta_days < 0
            THEN "saves " \o ToString(Abs(best.delta_days)) \o " day(s)"
            ELSE IF best.delta_days = 0 THEN "maintains the original schedule"
            ELSE "adds only " \o ToString(best.delta_days) \o " day(s)"
        cost ==
            IF best.cost_impact < 0
            THEN <<"reduces cost by $" \o GroupThousands(Abs(best.cost_impact))>>
            ELSE IF best.cost_impact > 0
            THEN <<"with a cost increase of $" \o GroupThousands(best.cost_impact)>>
            ELSE <<>>
        stacking_count == Len(best.trade_stacking_conflicts)
        stacking ==
            IF stacking_count = 0 THEN "introduces no trade-stacking conflicts"
            ELSE "introduces " \o ToString(stacking_count) \o " stacking conflict(s)"
    IN "Scenario " \o ToString(best_idx + 1) \o " is recommended because it "
       \o Join(<<schedule>> \o cost \o <<stacking>>, ", ") \o "."

\* the wagons of small plans to compare: W1 of any duration and crew, W2 short
CompareWagonLists ==
    { wl \in WagonLists(2, Durations, {1}, {1, 2}) : wl[2].crew_size = 1 }

\* the scenarios tried on them
SmallScenarios ==
    { <<>>,
      <<Change("add_crew", [trade_id |-> WagonId(1), additional_crew |-> 1])>>,
      <<Change("add_crew", [trade_id |-> WagonId(1), additional_crew |-> -1])>>,
      <<Change("delay_zone", [zone_id |-> ZoneId(1), delay_days |-> 1])>>,
      <<Change("add_buffer", [after_trade_id |-> "", buffer_days |-> -1])>>,
      <<Change("remove_trade", [trade_id |-> WagonId(2)])>> }

\* a one-zone plan of eight trades, worked seven days a week with buffer 1:
\* X1..X3 last one day (X1 with a crew of 45), Y1..Y5 last 1..5 days
CrowdedWagon(id, sequence, duration_days, crew_size, cost_per_day) ==
    [id |-> id, name |-> "Trade " \o id, sequence |-> sequence,
     duration_days |-> duration_days, crew_size |-> crew_size,
     cost_per_day |-> cost_per_day]

CrowdedPlan ==
    Plan(ZoneList(1),
         << CrowdedWagon("X1", 1, 1, 45, 0), CrowdedWagon("X2", 2, 1, 1, 0),
            CrowdedWagon("X3", 3, 1, 1, 0), CrowdedWagon("Y1", 4, 1, 1, 1),
            CrowdedWagon("Y2", 5, 2, 1, 1), CrowdedWagon("Y3", 6, 3, 1, 1),
            CrowdedWagon("Y4", 7, 4, 1, 1), CrowdedWagon("Y5", 8, 5, 1, 1) >>,
         WhatIfTaktTime, 0, 0..6, 1)

RemoveAll(ids) == [k \in 1..Len(ids) |-> Change("remove_trade", [trade_id |-> ids[k]])]

\* keep X1..X3 on one day each behind a 45-day X1, overlapping (buffer -1)
ScenarioStacked ==
    RemoveAll(<<"Y1", "Y2", "Y3", "Y4", "Y5">>)
    \o << Change("add_buffer", [after_trade_id |-> "", buffer_days |-> -2]),
          Change("add_crew", [trade_id |-> "X1", additional_crew |-> -44]) >>

\* keep Y1..Y5, overlapping (buffer -1), over eight zones
ScenarioSpread ==
    RemoveAll(<<"X1", "X2", "X3">>)
    \o << Change("add_buffer", [after_trade_id |-> "", buffer_days |-> -2]),
          Change("split_zone",
                 [zone_id |-> ZoneId(1),
                  split_into |-> <<"a", "b", "c", "d", "e", "f", "g", "h">>]) >>

ScenarioChoices(base) ==
    IF base = CrowdedPlan THEN {ScenarioStacked, ScenarioSpread} ELSE SmallScenarios

\* the requests with more than three scenarios are those on one-zone plans
LongComparePlan(base) == Len(base.zones) = 1

InitCompare ==
    /\ \/ \E nz \in 1..2 : \E wl \in CompareWagonLists :
              base_plan = Plan(ZoneList(nz), wl, WhatIfTaktTime, 0, {0, 1, 2, 3, 4}, 0)
       \/ base_plan = CrowdedPlan
    /\ \E n \in 0..MaxScenarios :
           /\ n > 3 => LongComparePlan(base_plan)
           /\ scenarios \in [1..n -> ScenarioChoices(base_plan)]
    /\ results = <<>>
    /\ today = 0
    /\ grid_calls = <<>>
    /\ day_call = NoDayCall
    /\ zone_delays = <<>>
    /\ assignments = <<>>
    /\ conflicts = <<>>
    /\ WhatIfIdle
    /\ MCIdle
    /\ pc = "comparing"

\* one pass of "for scenario_changes in request.scenarios"
RunScenario ==
    /\ pc = "comparing"
    /\ Len(results) < Len(scenarios)
    /\ LET changes == scenarios[Len(results) + 1]
       IN \E t \in Todays :
           LET res == SimulateWhatIf(base_plan, changes, t)
           IN /\ today' = IF SimulateReadsToday(base_plan, changes) THEN t ELSE today
              /\ base_plan' = CallerPlan(base_plan,
                                         ApplyChanges(changes, InitialSimState(base_plan)))
              /\ IF res.outcome = "raised"
                 THEN /\ pc' = "raised"
                      /\ result' = res
                      /\ UNCHANGED results
                 ELSE /\ results' = Append(results, res)
                      /\ UNCHANGED <<pc, result>>
    /\ UNCHANGED <<grid_calls, day_call, zone_delays, assignments, conflicts, scenarios, mc_vars,
                   sim_zones, sim_wagons, sim_takt, sim_buffer, resource_impacts,
                   warnings, change, n_changes, applied>>

\* compare_scenarios after the scenarios ran: scoring, reason, result
Recommend ==
    /\ pc = "comparing"
    /\ Len(results) = Len(scenarios)
    /\ IF results = <<>>
       THEN \* results[best_idx] on an empty list
            /\ pc' = "raised"
            /\ result' = [outcome |-> "raised", exception |-> "IndexError"]
       ELSE LET best_idx == BestIndex(results)
            IN /\ pc' = "compare_done"
               /\ result' = [outcome |-> "returned",
                             scenarios |-> results,
                             recommendation_index |-> best_idx,
                             recommendation_reason |->
                                 RecommendationReason(results[best_idx + 1], best_idx)]
    /\ UNCHANGED <<grid_calls, day_call, base_plan, today, zone_delays, assignments, conflicts, mc_vars,
                   compare_vars, sim_zones, sim_wagons, sim_takt, sim_buffer,
                   resource_impacts, warnings, change, n_changes, applied>>

NextCompare == RunScenario \/ Recommend

SpecCompare == InitCompare /\ [][NextCompare]_vars

(***************************************************************************)
(* SpecCalls: the grid computed by several calls in a row, some of them    *)
(* with the arguments of an earlier call.  _recalculate_grid takes self    *)
(* but TaktSimulator has no attribute; whatever an earlier call left is in *)
(* grid_calls.                                                             *)
(***************************************************************************)
MaxCalls == 3

\* WagonInput of calculator.py for a Wagon: trade_id and buffer_after added
WagonInputs(wagons, buffer_after) ==
    [i \in 1..Len(wagons) |->
        [id |-> wagons[i].id, trade_id |-> wagons[i].id, sequence |-> wagons[i].sequence,
         duration_days |-> wagons[i].duration_days, buffer_after |-> buffer_after]]

\* requests made between two calls with equal arguments
OtherPlans ==
    { Plan(ZoneList(2), wl, 1, 0, 0..6, 0) : wl \in WagonLists(1, {MaxDuration}, {1}, {1}) }
    \cup { Plan(ZoneList(1), wl, 1, 5, {0, 1, 2, 3, 4}, MaxBuffer) :
             wl \in WagonLists(2, {1}, {MaxDuration}, {1}) }

InitCalls ==
    /\ \E nz \in 1..2, nw \in 1..2 :
       \E wl \in WagonLists(nw, Durations, Durations, {1}) :
       \E sd \in StartDates, cal \in Calendars, b \in 0..MaxBuffer :
           base_plan = Plan(ZoneList(nz), wl, 1, sd, cal, b)
    /\ zone_delays \in [ZoneIdsOf(base_plan.zones) -> {0, MaxDelay}]
    /\ today = 0
    /\ grid_calls = <<>>
    /\ day_call = NoDayCall
    /\ assignments = <<>>
    /\ conflicts = <<>>
    /\ pc = "call_input"
    /\ WhatIfIdle
    /\ MCIdle
    /\ CompareIdle

\* one call of _recalculate_grid and one of generate_takt_grid on base_plan
CallGrid ==
    /\ pc = "call_input"
    /\ assignments' = RecalculateGrid(base_plan.zones, base_plan.wagons,
                                      base_plan.takt_time, base_plan.start_date,
                                      base_plan.working_days, base_plan.buffer_days,
                                      zone_delays)
    /\ grid_calls' =
          Append(grid_calls,
                 [plan |-> base_plan,
                  zone_delays |-> zone_delays,
                  assignments |-> assignments',
                  legacy |-> GenerateTaktGrid(base_plan.zones,
                                              WagonInputs(base_plan.wagons,
                                                          base_plan.buffer_days),
                                              base_plan.start_date, base_plan.takt_time,
                                              base_plan.working_days)])
    /\ pc' = "call_done"
    /\ UNCHANGED <<day_call, base_plan, today, zone_delays, conflicts, whatif_vars, mc_vars,
                   compare_vars>>

\* the caller makes another request: the arguments of an earlier call again,
\* or other ones
NextCall ==
    /\ pc = "call_done"
    /\ Len(grid_calls) < MaxCalls
    /\ \/ \E i \in 1..Len(grid_calls) :
             /\ base_plan' = grid_calls[i].plan
             /\ zone_delays' = grid_calls[i].zone_delays
       \/ \E other \in OtherPlans :
             /\ base_plan' = other
             /\ zone_delays' = [z \in ZoneIdsOf(other.zones) |-> 0]
    /\ pc' = "call_input"
    /\ UNCHANGED <<grid_calls, day_call, today, assignments, conflicts, whatif_vars, mc_vars,
                   compare_vars>>

NextCalls == CallGrid \/ NextCall

SpecCalls == InitCalls /\ [][NextCalls]_vars

(***************************************************************************)
(* SpecDays: _next_working_day and _add_working_days followed one loop     *)
(* pass at a time, on any working_days list the schema accepts (list[int]  *)
(* without a constraint) and any start date.  Dates are day numbers up to  *)
(* LastDate, the model's date.max: date + timedelta(days=1) beyond it      *)
(* raises OverflowError.  A call runs to its end without interruption, so  *)
(* a pass that can be taken is taken.                                      *)
(***************************************************************************)
\* date.max as a day number
LastDate == 20

\* working_days lists: Mon-Fri, every day, Wednesday only, the weekend, the
\* empty list, and a list holding no weekday of 0..6
AnyWorkingDays == Calendars \cup { {}, {7} }

\* the dates a helper is called on: early ones and the last two
HelperDates == StartDates \cup {LastDate - 1, LastDate}

\* the day counts _recalculate_grid passes: duration - 1 of a wagon of
\* duration 0, 0, buffer_days + 1, a zone delay
HelperDays == {-1, 0, 1, 2}

InitDays ==
    /\ \E wd \in AnyWorkingDays, sd \in HelperDates :
           /\ base_plan = Plan(<<>>, <<>>, 1, sd, wd, 0)
           /\ \/ day_call = [name |-> "_next_working_day", at |-> "while", d |-> sd]
              \/ \E days \in HelperDays :
                     day_call = [name |-> "_add_working_days", at |-> "entry",
                                 start |-> sd, days |-> days, current |-> sd, added |-> 0]
    /\ today = 0
    /\ grid_calls = <<>>
    /\ zone_delays = <<>>
    /\ assignments = <<>>
    /\ conflicts = <<>>
    /\ pc = "day_call"
    /\ WhatIfIdle
    /\ MCIdle
    /\ CompareIdle

\* "return d", "return start", "return current"
Returned(call) == [call EXCEPT !.at = "returned"]

\* a date that stays at date.max when a day is added to it
StaysAtDateMax(call) == call

\* d += timedelta(days=1) on date.max: OverflowError leaves the helper
Overflowed(call) == [call EXCEPT !.at = "raised"]

\* what the helper returned
ReturnValue(call) ==
    IF call.name = "_next_working_day" THEN call.d ELSE call.current

DayCallOnly ==
    UNCHANGED <<base_plan, today, zone_delays, assignments, conflicts, pc, grid_calls,
                whatif_vars, mc_vars, compare_vars>>

\* _next_working_day: one test of "while d.weekday() not in working_days"
NextWorkingDayPass ==
    /\ day_call.name = "_next_working_day" /\ day_call.at = "while"
    /\ day_call' =
           IF IsWorkingDay(day_call.d, base_plan.working_days)
           THEN Returned(day_call)
           ELSE IF day_call.d = LastDate THEN Overflowed(day_call)
           ELSE [day_call EXCEPT !.d = @ + 1]
    /\ DayCallOnly

\* _add_working_days: "if days <= 0: return start"
AddWorkingDaysEntry ==
    /\ day_call.name = "_add_working_days" /\ day_call.at = "entry"
    /\ day_call' =
           IF day_call.days <= 0 THEN Returned([day_call EXCEPT !.current = day_call.start])
           ELSE [day_call EXCEPT !.at = "snap", !.current = day_call.start]
    /\ DayCallOnly

\* _add_working_days: one test of "while current.weekday() not in working_days"
AddWorkingDaysSnap ==
    /\ day_call.name = "_add_working_days" /\ day_call.at = "snap"
    /\ day_call' =
           IF IsWorkingDay(day_call.current, base_plan.working_days)
           THEN [day_call EXCEPT !.at = "count", !.added = 0]
           ELSE IF day_call.current = LastDate THEN Overflowed(day_call)
           ELSE [day_call EXCEPT !.current = @ + 1]
    /\ DayCallOnly

\* _add_working_days: one test of "while added < days" and its body
AddWorkingDaysCount ==
    /\ day_call.name = "_add_working_days" /\ day_call.at = "count"
    /\ day_call' =
           IF ~(day_call.added < day_call.days)
           THEN Returned(day_call)
           ELSE IF day_call.current = LastDate THEN Overflowed(day_call)
           ELSE [day_call EXCEPT
                    !.current = @ + 1,
                    !.added = IF IsWorkingDay(day_call.current + 1, base_plan.working_days)
                              THEN @ + 1 ELSE @]
    /\ DayCallOnly

NextDays ==
    \/ NextWorkingDayPass
    \/ AddWorkingDaysEntry
    \/ AddWorkingDaysSnap
    \/ AddWorkingDaysCount

SpecDays == InitDays /\ [][NextDays]_vars /\ WF_vars(NextDays)

(***************************************************************************)
(* Properties of simulate_what_if (Spec)                                   *)
(***************************************************************************)
\* a change whose ids are unknown to the plan it meets, or whose parameters
\* are malformed
UnknownOrMalformed(chg, zones, wagons) ==
    LET params == chg.parameters
    IN CASE chg.type = "add_crew" ->
              \/ FindIndex(wagons, params.trade_id) = 0
              \/ wagons[FindIndex(wagons, params.trade_id)].crew_size
                     + params.additional_crew = 0
         [] chg.type = "change_takt_time" -> params.new_takt_time < 1
         [] chg.type = "move_trade" -> FindIndex(wagons, params.trade_id) = 0
         [] chg.type = "add_buffer" ->
              params.after_trade_id # "" /\ FindIndex(wagons, params.after_trade_id) = 0
         [] chg.type = "delay_zone" -> FindIndex(zones, params.zone_id) = 0
         [] chg.type = "remove_trade" -> FindIndex(wagons, params.trade_id) = 0
         [] chg.type = "split_zone" ->
              FindIndex(zones, params.zone_id) = 0 \/ Len(params.split_into) < 2
         [] OTHER -> FALSE

\* a step of the change loop (Finish is the only step that ends in "done")
ChangeStep == pc = "applying" /\ pc' # "done"

\* C8: a change with an unknown trade/zone id or malformed parameters never
\* aborts simulate_what_if: the step appends one warning, leaves zones, wagons,
\* takt_time, buffer_days, the zone-delay map and resource_impacts exactly as
\* they were, and the loop goes on to the following changes.
C8_MalformedChangeSkipped ==
    [][ (ChangeStep /\ UnknownOrMalformed(change', sim_zones, sim_wagons))
          => /\ pc' = "applying"
             /\ Len(warnings') = Len(warnings) + 1
             /\ SubSeq(warnings', 1, Len(warnings)) = warnings
             /\ UNCHANGED <<sim_zones, sim_wagons, sim_takt, sim_buffer, zone_delays,
                            resource_impacts>> ]_vars

\* an add_crew that brings the crew of a known trade to 0 has ended the call
\* with ZeroDivisionError, and no result exists
C8_Witness ==
    /\ pc = "raised"
    /\ change.type = "add_crew"
    /\ result = [outcome |-> "raised", exception |-> "ZeroDivisionError"]

InvalidBasePlan(base) ==
    \/ base.zones = <<>>
    \/ base.wagons = <<>>
    \/ \E k \in 1..Len(base.wagons) : base.wagons[k].duration_days <= 0

\* C9: simulate_what_if returns no result for a base plan with an empty zone
\* list, an empty wagon list or a wagon of duration_days <= 0, and the call
\* never reads the current date.
C9_InvalidPlanRejected ==
    /\ InvalidBasePlan(base_plan) => pc # "done"
    /\ today \notin Todays

\* a base plan without zones has produced an ordinary result whose end dates
\* are the current date
C9_Witness ==
    /\ pc = "done"
    /\ base_plan.zones = <<>>
    /\ result.outcome = "returned"
    /\ result.original_end_date = today
    /\ result.simulated_end_date = today
    /\ today \in Todays

\* the locals of simulate_what_if after the changes applied so far
LoopState ==
    [zones |-> sim_zones, wagons |-> sim_wagons, takt_time |-> sim_takt,
     buffer_days |-> sim_buffer, zone_delays |-> zone_delays,
     resource_impacts |-> resource_impacts, warnings |-> warnings, raised |-> "none"]

RemoveThenAddCrew ==
    << Change("remove_trade", [trade_id |-> WagonId(1)]),
       Change("add_crew", [trade_id |-> WagonId(1), additional_crew |-> 1]) >>

AddCrewThenRemove ==
    << Change("add_crew", [trade_id |-> WagonId(1), additional_crew |-> 1]),
       Change("remove_trade", [trade_id |-> WagonId(1)]) >>

\* C11: simulate_what_if applies the changes strictly in list order, each one
\* on the state the earlier ones left: while the loop runs, the mutated plan is
\* the left fold of the Change Applier over the changes applied so far, and a
\* returned result is the one of that fold.  The order matters: on a plan that
\* holds trade W1, remove_trade(W1) then add_crew(W1) leaves one warning and no
\* resource impact, add_crew(W1) then remove_trade(W1) leaves one resource
\* impact and no warning.
C11_AppliedInListOrder ==
    /\ pc = "applying" =>
          LoopState = ApplyChanges(applied, InitialSimState(base_plan))
    /\ pc = "done" =>
          \E t \in Todays : result = SimulateWhatIf(base_plan, applied, t)
    /\ (pc = "applying" /\ FindIndex(base_plan.wagons, WagonId(1)) # 0) =>
          /\ applied = RemoveThenAddCrew =>
                Len(warnings) = 1 /\ resource_impacts = <<>>
          /\ applied = AddCrewThenRemove =>
                Len(resource_impacts) = 1 /\ warnings = <<>>

\* the two orders of the same two changes were both run on a plan holding W1
C11_Witness ==
    /\ pc = "applying"
    /\ FindIndex(base_plan.wagons, WagonId(1)) # 0
    /\ applied = RemoveThenAddCrew
    /\ Len(warnings) = 1
    /\ resource_impacts = <<>>
    /\ ApplyChanges(AddCrewThenRemove, InitialSimState(base_plan)).warnings = <<>>
    /\ Len(ApplyChanges(AddCrewThenRemove, InitialSimState(base_plan)).resource_impacts) = 1

\* a plan of the data model: at least one zone and one wagon, every wagon
\* with duration_days >= 1 and crew_size >= 1
WithinDataModel(zones, wagons) ==
    /\ zones # <<>>
    /\ wagons # <<>>
    /\ \A i \in 1..Len(wagons) : wagons[i].duration_days >= 1 /\ wagons[i].crew_size >= 1

\* add_crew with additional_crew = 0 on a trade of the wagons
NoOpAddCrew(chg, wagons) ==
    /\ chg.type = "add_crew"
    /\ DOMAIN chg.parameters = {"trade_id", "additional_crew"}
    /\ chg.parameters.additional_crew = 0
    /\ FindIndex(wagons, chg.parameters.trade_id) # 0

DenseSequences(wagons) ==
    /\ { wagons[i].sequence : i \in 1..Len(wagons) } = 1..Len(wagons)
    /\ \A i \in 1..Len(wagons), j \in 1..Len(wagons) :
           wagons[i].sequence = wagons[j].sequence => i = j

OnlyMovesAndRemovals ==
    \A i \in 1..Len(applied) : applied[i].type \in {"move_trade", "remove_trade"}

\* the wagons other than trade_id keep their relative order from before to after
OthersKeepOrder(before, after, trade_id) ==
    \A i \in 1..Len(before), j \in 1..Len(before) :
        (before[i].id # trade_id /\ before[j].id # trade_id) =>
            LET ai == FindIndex(after, before[i].id)
                aj == FindIndex(after, before[j].id)
            IN /\ ai # 0
               /\ aj # 0
               /\ (before[i].sequence < before[j].sequence)
                     <=> (after[ai].sequence < after[aj].sequence)

\* C21: after any sequence of move_trade and remove_trade changes on wagons
\* whose sequence numbers are unique and dense (1..n), the sequence numbers are
\* still unique and dense (1..n'), a moved wagon sits at new_sequence, and the
\* relative order of all other wagons is preserved.
C21_DenseSequences ==
    /\ []( ( /\ pc = "applying"
             /\ OnlyMovesAndRemovals
             /\ DenseSequences(base_plan.wagons) )
           => DenseSequences(sim_wagons) )
    /\ [][ ( /\ ChangeStep
             /\ change'.type \in {"move_trade", "remove_trade"}
             /\ FindIndex(sim_wagons, change'.parameters.trade_id) # 0 )
           => /\ OthersKeepOrder(sim_wagons, sim_wagons', change'.parameters.trade_id)
              /\ change'.type = "move_trade" =>
                    sim_wagons'[FindIndex(sim_wagons', change'.parameters.trade_id)].sequence
                        = change'.parameters.new_sequence ]_vars

\* the only wagon of a plan was moved to sequence 2: its number is outside 1..1
C21_Witness ==
    /\ pc = "applying"
    /\ Len(base_plan.wagons) = 1
    /\ DenseSequences(base_plan.wagons)
    /\ applied = << Change("move_trade", [trade_id |-> WagonId(1), new_sequence |-> 2]) >>
    /\ Len(sim_wagons) = 1
    /\ sim_wagons[1].sequence = 2
    /\ ~DenseSequences(sim_wagons)

UniqueZoneSequences(zones) ==
    \A i \in 1..Len(zones), j \in 1..Len(zones) :
        zones[i].sequence = zones[j].sequence => i = j

\* how many cells of the grid of the plan as mutated so far belong to a wagon
CellsOfWagon(zones, wagons, wagon_id) ==
    LET asgs == RecalculateGrid(zones, wagons, sim_takt, base_plan.start_date,
                                base_plan.working_days, sim_buffer, zone_delays)
    IN Cardinality({ c \in 1..Len(asgs) : asgs[c].wagon_id = wagon_id })

SplitStep == ChangeStep /\ change'.type = "split_zone"

\* C22: split_zone on a known zone with sequence s and N >= 2 names replaces
\* that zone by N zones with sequences s .. s+N-1 in the order of the names,
\* adds N-1 to the sequence of every zone that came after s, leaves the
\* earlier zones unchanged and keeps the zone sequence numbers unique; the
\* grid of the mutated plan has N-1 more cells per wagon.  With fewer than 2
\* names the zone list is unchanged.
C22_SplitZone ==
    [][ SplitStep =>
          LET zone_id == change'.parameters.zone_id
              names == change'.parameters.split_into
              N == Len(names)
              k == FindIndex(sim_zones, zone_id)
              s == sim_zones[k].sequence
          IN /\ (k # 0 /\ N >= 2) =>
                  /\ Len(sim_zones') = Len(sim_zones) + N - 1
                  /\ ~(\E i \in 1..Len(sim_zones') : sim_zones'[i].id = zone_id)
                  /\ \A i \in 1..N :
                        \E j \in 1..Len(sim_zones') :
                            /\ sim_zones'[j].name = names[i]
                            /\ sim_zones'[j].id = SplitZoneId(zone_id, i - 1)
                            /\ sim_zones'[j].sequence = s + i - 1
                  /\ \A i \in 1..Len(sim_zones) :
                        i # k =>
                          \E j \in 1..Len(sim_zones') :
                              /\ sim_zones'[j].id = sim_zones[i].id
                              /\ sim_zones'[j].name = sim_zones[i].name
                              /\ sim_zones'[j].sequence =
                                    IF sim_zones[i].sequence > s
                                    THEN sim_zones[i].sequence + N - 1
                                    ELSE sim_zones[i].sequence
                  /\ UniqueZoneSequences(sim_zones) => UniqueZoneSequences(sim_zones')
                  /\ \A w \in 1..Len(sim_wagons) :
                        CellsOfWagon(sim_zones', sim_wagons', sim_wagons[w].id)
                            = CellsOfWagon(sim_zones, sim_wagons, sim_wagons[w].id) + N - 1
             /\ N < 2 => sim_zones' = sim_zones ]_vars

\* the second of two zones was split into three, then the first into two: the
\* first split left zone 1 alone, the second moved the three new zones from
\* sequences 2, 3, 4 to 3, 4, 5
C22_Witness ==
    /\ pc = "applying"
    /\ applied = << Change("split_zone", [zone_id |-> ZoneId(2),
                                          split_into |-> <<"A", "B", "C">>]),
                    Change("split_zone", [zone_id |-> ZoneId(1),
                                          split_into |-> <<"A", "B">>]) >>
    /\ Len(sim_wagons) = 2
    /\ [i \in 1..Len(sim_zones) |-> sim_zones[i].id]
          = << SplitZoneId(ZoneId(1), 0), SplitZoneId(ZoneId(1), 1),
               SplitZoneId(ZoneId(2), 0), SplitZoneId(ZoneId(2), 1),
               SplitZoneId(ZoneId(2), 2) >>
    /\ [i \in 1..Len(sim_zones) |-> sim_zones[i].sequence] = <<1, 2, 3, 4, 5>>

\* the values after_trade_id takes in the second of two runs: no trade, the
\* first trade, a trade the plan does not have
AfterTradeIds == {"", WagonId(1), UnknownTrade}

\* request.changes with the after_trade_id of change i replaced
WithAfterTrade(changes, i, after_trade_id) ==
    [changes EXCEPT ![i] = Change("add_buffer",
                                  [after_trade_id |-> after_trade_id,
                                   buffer_days |-> changes[i].parameters.buffer_days])]

\* two results that agree on everything except the warnings
SameButWarnings(r1, r2) ==
    /\ r1.outcome = "returned" /\ r2.outcome = "returned"
    /\ r1.sim_assignments = r2.sim_assignments
    /\ r1.original_end_date = r2.original_end_date
    /\ r1.simulated_end_date = r2.simulated_end_date
    /\ r1.delta_days = r2.delta_days
    /\ r1.cost_impact = r2.cost_impact
    /\ r1.trade_stacking_conflicts = r2.trade_stacking_conflicts
    /\ r1.risk_score_change = r2.risk_score_change
    /\ r1.resource_impacts = r2.resource_impacts
    /\ r1.flowline_data = r2.flowline_data

\* C23: add_buffer(after_trade_id, k) adds k to the one global buffer_days
\* whichever trade it names: the call on the same request with the
\* after_trade_id of one add_buffer change replaced (by a known trade, an
\* unknown trade or the empty string) returns the same mutated grid,
\* simulated_end_date, delta_days, cost_impact and conflicts; only the
\* warnings may differ.
C23_BufferIsGlobal ==
    pc = "done" =>
        \A i \in 1..Len(applied) :
            applied[i].type = "add_buffer" =>
                \A a \in AfterTradeIds :
                    SameButWarnings(result,
                                    SimulateWhatIf(base_plan, WithAfterTrade(applied, i, a),
                                                   today))

\* a buffer of one day after a trade the plan does not have: the end date
\* moved, and the call that names no trade returns the same result without
\* the warning
C23_Witness ==
    /\ pc = "done"
    /\ applied = << Change("add_buffer", [after_trade_id |-> UnknownTrade, buffer_days |-> 1]) >>
    /\ Len(base_plan.wagons) = 2 /\ Len(base_plan.zones) = 2
    /\ result.delta_days > 0
    /\ Len(result.warnings) = 1
    /\ SimulateWhatIf(base_plan, WithAfterTrade(applied, 1, ""), today).warnings = <<>>
    /\ SameButWarnings(result, SimulateWhatIf(base_plan, WithAfterTrade(applied, 1, ""), today))

\* request.changes with the delay_zone changes i and i + 1 replaced by one
\* delay_zone of the sum of their days
MergedDelays(changes, i) ==
    SubSeq(changes, 1, i - 1)
    \o << Change("delay_zone",
                 [zone_id |-> changes[i].parameters.zone_id,
                  delay_days |-> changes[i].parameters.delay_days
                                 + changes[i + 1].parameters.delay_days]) >>
    \o SubSeq(changes, i + 2, Len(changes))

\* changes i and i + 1 are delay_zone changes on the same zone, which the plan
\* has when they are applied
TwoDelaysOfKnownZone(changes, i) ==
    /\ changes[i].type = "delay_zone" /\ changes[i + 1].type = "delay_zone"
    /\ changes[i].parameters.zone_id = changes[i + 1].parameters.zone_id
    /\ FindIndex(ApplyChanges(SubSeq(changes, 1, i - 1), InitialSimState(base_plan)).zones,
                 changes[i].parameters.zone_id) # 0

\* the start cell (w, z) of the returned grid would have without a zone delay:
\* the latest of the plan start and the day after its predecessors, on a
\* working day
UndelayedStart(asgs, w, z, n_zones) ==
    LET EndOf(w2, z2) == asgs[(w2 - 1) * n_zones + z2].end_date
        after_wagon ==
            IF w > 1
            THEN AddWorkingDays(EndOf(w - 1, z), sim_buffer + 1, base_plan.working_days)
            ELSE base_plan.start_date
        after_zone ==
            IF z > 1
            THEN AddWorkingDays(EndOf(w, z - 1), 1, base_plan.working_days)
            ELSE base_plan.start_date
    IN NextWorkingDay(Max2(base_plan.start_date, Max2(after_wagon, after_zone)),
                      base_plan.working_days)

\* C24: delay_zone accumulates per zone: two delay_zone changes of d1 and d2
\* days on the same known zone give the grid of one change of d1 + d2 days,
\* and an accumulated delay d > 0 moves the start of every wagon's cell in that
\* zone d working days past the start the cell would otherwise have, whichever
\* wagon it belongs to.
C24_DelayAccumulates ==
    pc = "done" =>
        /\ \A i \in 1..(Len(applied) - 1) :
               TwoDelaysOfKnownZone(applied, i) =>
                   SimulateWhatIf(base_plan, MergedDelays(applied, i), today).sim_assignments
                       = result.sim_assignments
        /\ LET sorted_zones == SortedBySequence(sim_zones)
               n_zones == Len(sorted_zones)
               n_wagons == Len(sim_wagons)
           IN \A w \in 1..n_wagons : \A z \in 1..n_zones :
                  LET d == DictGet(zone_delays, sorted_zones[z].id, 0)
                      a == assignments[(w - 1) * n_zones + z]
                      undelayed == UndelayedStart(assignments, w, z, n_zones)
                  IN d > 0 =>
                        /\ IsWorkingDay(a.start_date, base_plan.working_days)
                        /\ WorkingDaysBetween(undelayed, a.start_date,
                                              base_plan.working_days) = d + 1

\* zone 1 of two was delayed by one day twice: both wagons start in it two
\* working days later than their predecessors allow, the second wagon as well
C24_Witness ==
    /\ pc = "done"
    /\ applied = << Change("delay_zone", [zone_id |-> ZoneId(1), delay_days |-> 1]),
                    Change("delay_zone", [zone_id |-> ZoneId(1), delay_days |-> 1]) >>
    /\ Len(sim_zones) = 2 /\ Len(sim_wagons) = 2
    /\ zone_delays[ZoneId(1)] = 2
    /\ assignments[1].start_date = 2
    /\ assignments[3].zone_id = ZoneId(1)
    /\ assignments[3].start_date
          = AdvanceWorkingDays(UndelayedStart(assignments, 2, 1, 2), 2,
                               base_plan.working_days)
    /\ assignments[3].start_date > UndelayedStart(assignments, 2, 1, 2)

\* the bounds of the data model on what the Grid Scheduler is handed
WithinBounds(wagons, takt_time, buffer_days) ==
    /\ \A i \in 1..Len(wagons) : wagons[i].duration_days >= 1 /\ wagons[i].crew_size >= 1
    /\ takt_time >= 1
    /\ buffer_days >= 0

\* C25: after any sequence of changes applied to a base plan within the bounds
\* of the data model, the mutated plan handed to the Grid Scheduler is within
\* them as well: every wagon has duration_days >= 1 and crew_size >= 1,
\* takt_time >= 1 and buffer_days >= 0.
C25_BoundsKept ==
    (pc = "done" /\ WithinBounds(base_plan.wagons, base_plan.takt_time, base_plan.buffer_days))
        => WithinBounds(sim_wagons, sim_takt, sim_buffer)

\* add_buffer of -1 day on a plan with no buffer: the grid was computed with
\* buffer_days = -1 and the second trade entered zone 1 on the day the first
\* one left it
C25_Witness ==
    /\ pc = "done"
    /\ WithinBounds(base_plan.wagons, base_plan.takt_time, base_plan.buffer_days)
    /\ applied = << Change("add_buffer", [after_trade_id |-> WagonId(1), buffer_days |-> -1]) >>
    /\ sim_buffer = -1
    /\ Len(sim_zones) = 2 /\ Len(sim_wagons) = 2
    /\ assignments[3].start_date = assignments[1].end_date

\* the inputs of the risk score the formula is compared on: deltas of up to
\* MaxRiskDelta days either way, up to MaxRiskConflicts conflicts, up to
\* MaxRiskSide zones and wagons (more than 20 cells at the top)
MaxRiskDelta == 26
MaxRiskConflicts == 5
MaxRiskSide == 5

\* clamp(-1, 1, 0.6 * clamp(-1, 1, delta_days / max(cells, 20))
\*              + 0.4 * min(1, conflict_count / max(cells, 1))) as a fraction
RiskFormula(delta_days, conflict_count, n_zones, n_wagons) ==
    LET cells == n_zones * n_wagons
        M == IF cells > 20 THEN cells ELSE 20
        C == IF cells > 1 THEN cells ELSE 1
        sd == IF delta_days < -M THEN -M ELSE IF delta_days > M THEN M ELSE delta_days
        tk == IF conflict_count > C THEN C ELSE conflict_count
        num == 6 * sd * C + 4 * tk * M
        den == 10 * M * C
    IN IF num < -den THEN Rat(-1, 1) ELSE IF num > den THEN Rat(1, 1) ELSE Rat(num, den)

RatEq(a, b) == a.num * b.den = b.num * a.den

\* _compute_risk_score on the bounded inputs: the formula, within [-1, 1], 0
\* for no delta and no conflict, non-decreasing in both
RiskScoreIsFormula ==
    \A d \in (-MaxRiskDelta)..MaxRiskDelta, k \in 0..MaxRiskConflicts,
       nz \in 0..MaxRiskSide, nw \in 0..MaxRiskSide :
        LET r == ComputeRiskScore(d, k, nz, nw)
        IN /\ RatEq(r, RiskFormula(d, k, nz, nw))
           /\ RatLeq(Rat(-1, 1), r) /\ RatLeq(r, Rat(1, 1))
           /\ (d = 0 /\ k = 0) => r.num = 0
           /\ RatLeq(r, ComputeRiskScore(d + 1, k, nz, nw))
           /\ RatLeq(r, ComputeRiskScore(d, k + 1, nz, nw))

\* the formula on what the finished call measured
RiskOfResult ==
    RiskFormula(result.delta_days, Len(result.trade_stacking_conflicts),
                Len(sim_zones), Len(sim_wagons))

\* C26: for every delta_days, conflict count and mutated zone and wagon count
\* the risk score is clamp(-1, 1, 0.6 * clamp(-1, 1, delta_days /
\* max(zones * wagons, 20)) + 0.4 * min(1, conflict_count / max(zones * wagons,
\* 1))), lies in [-1, 1], is 0 when delta_days = 0 and there is no conflict and
\* does not decrease when delta_days or the conflict count grows;
\* risk_score_change of the result is that value rounded to 4 decimal places
\* (kept in ten-thousandths here).
C26_RiskScore ==
    /\ RiskScoreIsFormula
    /\ pc = "done" =>
          /\ result.risk_score_change = RoundHalfEven(RiskOfResult.num * 10000, RiskOfResult.den)
          /\ result.risk_score_change \in (-10000)..10000
          /\ (result.delta_days = 0 /\ result.trade_stacking_conflicts = <<>>)
                => result.risk_score_change = 0

\* C26 as stated: risk_score_change of the result is the formula itself
C26_ExactRiskScore ==
    pc = "done" => result.risk_score_change * RiskOfResult.den = RiskOfResult.num * 10000

\* one conflict in a grid of three zones and two wagons: the stacking term
\* 0.4 / 6 of the formula has no 4-decimal value
C26_Witness ==
    /\ pc = "done"
    /\ Len(sim_zones) * Len(sim_wagons) = 6
    /\ result.trade_stacking_conflicts # <<>>
    /\ result.risk_score_change * RiskOfResult.den # RiskOfResult.num * 10000
    /\ result.risk_score_change = RoundHalfEven(RiskOfResult.num * 10000, RiskOfResult.den)

UniqueZoneIds(zones) ==
    \A i \in 1..Len(zones), j \in 1..Len(zones) : zones[i].id = zones[j].id => i = j

\* a request of C27: unique zone ids, duration_days >= 1 and buffer_days >= 0
\* in the base plan, and changes that leave the zone ids unique and
\* buffer_days >= 0
StackFreeRequest ==
    /\ UniqueZoneIds(base_plan.zones)
    /\ \A i \in 1..Len(base_plan.wagons) : base_plan.wagons[i].duration_days >= 1
    /\ base_plan.buffer_days >= 0
    /\ UniqueZoneIds(sim_zones)
    /\ sim_buffer >= 0

\* C27: for a base plan with unique zone ids, duration_days >= 1 and
\* buffer_days >= 0 and a change list that keeps buffer_days >= 0 and the zone
\* ids unique, simulate_what_if returns no trade-stacking conflict, so the
\* conflict terms of risk_score_change and of the comparator score are zero.
C27_NoStacking ==
    (pc = "done" /\ StackFreeRequest) =>
        /\ result.trade_stacking_conflicts = <<>>
        /\ result.risk_score_change
              = RoundedRisk(ComputeRiskScore(result.delta_days, 0,
                                             Len(sim_zones), Len(sim_wagons)))
        /\ Score(result) = 1000 * result.delta_days + Max2(result.cost_impact, 0)
                           + result.risk_score_change

\* two changes on a plan of two zones and two wagons, one of them a delay of
\* zone 1 and one a split of it: six cells, each wagon enters a zone after the
\* wagon before it has left, no conflict
C27_Witness ==
    /\ pc = "done"
    /\ StackFreeRequest
    /\ Len(applied) = 2
    /\ applied[1].type = "delay_zone" /\ applied[2].type = "split_zone"
    /\ Len(assignments) = 6
    /\ \A i \in 1..3 : assignments[i + 3].start_date > assignments[i].end_date
    /\ result.trade_stacking_conflicts = <<>>

\* C29: simulate_what_if with an empty change list on a plan with at least one
\* zone and one wagon (and buffer_days >= 0) changes nothing: simulated_end_date
\* is original_end_date, delta_days, cost_impact and risk_score_change are 0,
\* resource_impacts and warnings are empty.
C29_EmptyChangeList ==
    (pc = "done" /\ applied = <<>> /\ base_plan.zones # <<>> /\ base_plan.wagons # <<>>
     /\ base_plan.buffer_days >= 0) =>
        /\ result.outcome = "returned"
        /\ result.simulated_end_date = result.original_end_date
        /\ result.delta_days = 0
        /\ result.cost_impact = 0
        /\ result.risk_score_change = 0
        /\ result.resource_impacts = <<>>
        /\ result.warnings = <<>>

\* the call without changes on two zones and two wagons of different
\* durations and crews: a grid of four cells that costs money and ends after
\* the start date, returned with all deltas 0
C29_Witness ==
    /\ pc = "done"
    /\ applied = <<>>
    /\ Len(base_plan.zones) = 2 /\ Len(base_plan.wagons) = 2
    /\ base_plan.wagons[1].duration_days # base_plan.wagons[2].duration_days
    /\ base_plan.wagons[1].crew_size = 2
    /\ Len(assignments) = 4
    /\ TotalCost(assignments, sim_wagons) > 0
    /\ result.original_end_date > base_plan.start_date
    /\ result.simulated_end_date = result.original_end_date
    /\ result.cost_impact = 0

(***************************************************************************)
(* Properties of simulate_monte_carlo (SpecMC)                             *)
(***************************************************************************)
MCDone == pc = "mc_done" /\ result.outcome = "returned"

Degenerate ==
    mc_request.duration_variance_pct = 0 /\ mc_request.delay_probability = 0

\* C5: with duration_variance_pct = 0 and delay_probability = 0 every
\* iteration's total duration is the deterministic baseline duration, so
\* on_time_probability = 1.0, std_dev = 0 and mean, P50, P80, P95 are the
\* baseline duration.
C5_DegenerateCase ==
    (MCDone /\ Degenerate) =>
        /\ \A i \in 1..Len(total_durations) :
               total_durations[i] = result.det_duration_days
        /\ result.on_time_probability = 10000
        /\ result.std_dev_days = 0
        /\ result.mean_duration_days = 100 * result.det_duration_days
        /\ result.p50 = result.det_duration_days
        /\ result.p80 = result.det_duration_days
        /\ result.p95 = result.det_duration_days

\* a degenerate request whose iterations differ from the baseline and from
\* each other
C5_Witness ==
    /\ MCDone
    /\ Degenerate
    /\ \E i \in 1..Len(total_durations) :
           total_durations[i] > result.det_duration_days
    /\ result.on_time_probability < 10000
    /\ result.std_dev_days > 0

\* C10: the percentile durations satisfy p50 <= p80 <= p95, and so do the
\* three calendar end dates derived from them.
C10_PercentileOrdering ==
    MCDone =>
        /\ result.p50 <= result.p80
        /\ result.p80 <= result.p95
        /\ result.p50_end_date <= result.p80_end_date
        /\ result.p80_end_date <= result.p95_end_date

\* iterations spread enough that the three percentiles and dates all differ,
\* drawn in descending order
C10_Witness ==
    /\ MCDone
    /\ Len(total_durations) = 3
    /\ total_durations[1] > total_durations[2]
    /\ total_durations[2] > total_durations[3]
    /\ result.p50 < result.p80
    /\ result.p80 < result.p95
    /\ result.p50_end_date < result.p80_end_date
    /\ result.p80_end_date < result.p95_end_date

\* the wagons, in sequence order, whose count exceeds 30% of the iterations
ExceedingWagons ==
    SelectSeq([i \in 1..Len(base_plan.wagons) |-> i],
              LAMBDA i : 10 * critical_counts[i] > 3 * mc_request.iterations)

\* C19: critical_trades lists the wagons whose critical-path count exceeds 30%
\* of the iterations; only when no wagon qualifies it lists the three wagons
\* with the highest counts.
C19_CriticalTrades ==
    MCDone =>
        LET wagons == MCPlanOf(base_plan).wagons
            top == TopCounts(critical_counts, <<>>, 3)
        IN IF ExceedingWagons # <<>>
           THEN result.critical_trades =
                    [k \in 1..Len(ExceedingWagons) |-> wagons[ExceedingWagons[k]].name]
           ELSE result.critical_trades = [k \in 1..Len(top) |-> wagons[top[k]].name]

\* a finished run over four wagons: all four are listed, not three
C19_Witness ==
    /\ MCDone
    /\ Len(base_plan.wagons) = ManyWagons
    /\ mc_request.iterations = MaxIterations
    /\ Len(result.critical_trades) = ManyWagons
    /\ \A i \in 1..ManyWagons : critical_counts[i] = mc_request.iterations

\* the counts never sit on the threshold: every trace visits every wagon
EveryWagonCounted ==
    pc \in {"mc_iterating", "mc_done"} =>
        \A i \in 1..Len(base_plan.wagons) : critical_counts[i] = Len(total_durations)

\* end date of the deterministic grid of the request's plan
DetEndDate ==
    LET plan == MCPlanOf(base_plan)
    IN GridEndDate(RecalculateGrid(plan.zones, plan.wagons, base_plan.takt_time,
                                   base_plan.start_date, base_plan.working_days,
                                   base_plan.buffer_days, <<>>),
                   today)

\* C20: the P50/P80/P95 end dates use the calendar mapping of the deterministic
\* scheduler: a percentile equal to the deterministic baseline's working-day
\* duration (det_duration_days) maps to the deterministic baseline's end date.
C20_PercentileDateIsGridDate ==
    MCDone =>
        /\ result.p50 = result.det_duration_days => result.p50_end_date = DetEndDate
        /\ result.p80 = result.det_duration_days => result.p80_end_date = DetEndDate
        /\ result.p95 = result.det_duration_days => result.p95_end_date = DetEndDate

\* a finished run whose median is the baseline duration and whose P50 end date
\* is the working day after the baseline end date
C20_Witness ==
    /\ MCDone
    /\ Len(base_plan.zones) = 2
    /\ Len(base_plan.wagons) = 2
    /\ result.p50 = result.det_duration_days
    /\ result.p50_end_date =
          AddWorkingDays(DetEndDate, 1, base_plan.working_days)
    /\ result.p50_end_date > DetEndDate

\* the names of all wagons of the request, in sequence order
AllWagonNames ==
    LET wagons == MCPlanOf(base_plan).wagons
    IN [i \in 1..Len(wagons) |-> wagons[i].name]

\* C28: for a plan with at least one wagon and one zone the backward trace
\* visits every wagon index in every iteration: after N iterations every
\* wagon's critical-path counter is N (a wagon is counted once per iteration),
\* critical_trades lists all wagons in sequence order and the top-3 fallback
\* is not taken.
C28_EveryWagonCritical ==
    (base_plan.zones # <<>> /\ base_plan.wagons # <<>>) =>
        /\ pc \in {"mc_iterating", "mc_done"} =>
              \A i \in 1..Len(base_plan.wagons) : critical_counts[i] = Len(total_durations)
        /\ MCDone =>
              /\ \A i \in 1..Len(base_plan.wagons) :
                    critical_counts[i] = mc_request.iterations
              /\ result.critical_trades = AllWagonNames
              /\ \E i \in 1..Len(base_plan.wagons) :
                    10 * critical_counts[i] >= 3 * mc_request.iterations

\* a finished run of MaxIterations iterations over two wagons and two zones
\* with sampled durations: both counters are MaxIterations, both trades listed
C28_Witness ==
    /\ MCDone
    /\ Len(base_plan.zones) = 2 /\ Len(base_plan.wagons) = 2
    /\ mc_request.iterations = MaxIterations
    /\ mc_request.duration_variance_pct > 0
    /\ critical_counts = <<MaxIterations, MaxIterations>>
    /\ result.critical_trades = AllWagonNames
    /\ \E i, j \in 1..Len(total_durations) : total_durations[i] # total_durations[j]

(***************************************************************************)
(* Properties of the Monte Carlo passes in any order (SpecMCOrder)         *)
(***************************************************************************)
MCOrderDone == pc = "mc_passes_done"

\* total_durations[it] as iteration it gives it alone
TotalOf(it) ==
    FinishAt(sampled[it], base_plan.buffer_days,
             Len(base_plan.wagons), Len(base_plan.zones))

\* the iterations written so far whose critical path holds wagon i
CriticalIterations(i) ==
    { it \in 1..mc_request.iterations :
        /\ total_durations[it] # Unwritten
        /\ i \in CriticalSet(sampled[it], base_plan.buffer_days,
                             Len(base_plan.wagons), Len(base_plan.zones), {}) }

PlannedDurations ==
    LET wagons == MCPlanOf(base_plan).wagons
    IN [c \in (1..Len(wagons)) \X (1..Len(base_plan.zones)) |-> wagons[c[1]].duration_days]

PathOf(it) ==
    CriticalPath(sampled[it], base_plan.buffer_days,
                 Len(base_plan.wagons), Len(base_plan.zones), <<>>)

\* a step of the trace that goes to the previous wagon
WagonStep(from, to) == to[1] = from[1] - 1 /\ to[2] = from[2]

\* a step of the trace that goes to the previous zone
ZoneStep(from, to) == to[1] = from[1] /\ to[2] = from[2] - 1

\* sampled durations of the cells of path from its k-th on, plus buffer_days
\* for every step to a previous wagon
RECURSIVE PathDuration(_, _, _)
PathDuration(dur, path, k) ==
    IF k > Len(path) THEN 0
    ELSE dur[path[k]]
         + (IF k < Len(path) /\ WagonStep(path[k], path[k + 1])
            THEN base_plan.buffer_days ELSE 0)
         + PathDuration(dur, path, k + 1)

CompareDone == pc = "compare_done" /\ result.outcome = "returned"

\* a is strictly lower than b on delta_days, cost_impact and conflict count
StrictlyBeats(a, b) ==
    /\ a.delta_days < b.delta_days
    /\ a.cost_impact < b.cost_impact
    /\ Len(a.trade_stacking_conflicts) < Len(b.trade_stacking_conflicts)

\* C6: when scenario A is strictly lower than scenario B on delta_days,
\* cost_impact and conflict count, A's score is strictly lower than B's and B
\* is not the recommendation.
C6_Dominance ==
    CompareDone =>
        \A a, b \in 1..Len(result.scenarios) :
            StrictlyBeats(result.scenarios[a], result.scenarios[b]) =>
                /\ Score(result.scenarios[a]) < Score(result.scenarios[b])
                /\ result.recommendation_index # b - 1

\* the stacked scenario beats the spread one on all three measures (20 against
\* 21 days, -15 against 105 of cost, 3 against 4 conflicts), and the spread one
\* is recommended
C6_Witness ==
    /\ CompareDone
    /\ scenarios = <<ScenarioStacked, ScenarioSpread>>
    /\ StrictlyBeats(result.scenarios[1], result.scenarios[2])
    /\ result.scenarios[1].delta_days = 20
    /\ result.scenarios[2].delta_days = 21
    /\ result.scenarios[1].risk_score_change = 10000
    /\ result.scenarios[2].risk_score_change = 3550
    /\ result.recommendation_index = 1

\* the score as the comparison defines it, in thousandths
C7_Score(res) ==
    1000 * res.delta_days
    + 5000 * Len(res.trade_stacking_conflicts)
    + (IF res.cost_impact > 0 THEN res.cost_impact ELSE 0)
    + res.risk_score_change

\* C7: for a non-empty scenario list the recommendation index is in [0, N),
\* its scenario has the minimum score, no scenario before it has that score,
\* and the returned results are those of the scenarios in input order.
C7_MinimumScore ==
    CompareDone =>
        LET n == Len(scenarios)
            best == result.recommendation_index + 1
        IN /\ n > 0
           /\ Len(result.scenarios) = n
           /\ best \in 1..n
           /\ \A k \in 1..n :
                  C7_Score(result.scenarios[best]) <= C7_Score(result.scenarios[k])
           /\ \A k \in 1..(best - 1) :
                  C7_Score(result.scenarios[best]) < C7_Score(result.scenarios[k])
           /\ \A k \in 1..n :
                  \E t \in Todays :
                      result.scenarios[k] = SimulateWhatIf(base_plan, scenarios[k], t)

\* three scenarios, the last two tied on the minimum score below the first:
\* the second is recommended
C7_Witness ==
    /\ CompareDone
    /\ Len(scenarios) = 3
    /\ scenarios[1] # scenarios[2]
    /\ C7_Score(result.scenarios[2]) = C7_Score(result.scenarios[3])
    /\ C7_Score(result.scenarios[2]) < C7_Score(result.scenarios[1])
    /\ result.recommendation_index = 1

SameArguments(a, b) == a.plan = b.plan /\ a.zone_delays = b.zone_delays

GridDone == pc = "grid_done"

PlanWagons == { base_plan.wagons[i] : i \in 1..Len(base_plan.wagons) }
PlanZones == { base_plan.zones[i] : i \in 1..Len(base_plan.zones) }

\* the assignment of wagon w in zone z
Cell(w, z) ==
    CHOOSE a \in { assignments[i] : i \in 1..Len(assignments) } :
        a.wagon_id = w.id /\ a.zone_id = z.id

\* C1: same-zone ordering.  For buffer_days >= 0, every zone z and every two
\* wagons w1 before w2 in sequence order (adjacent or not): (w2, z) starts at or
\* after the end of (w1, z) advanced by buffer_days + 1 working days, with and
\* without per-zone delays.
C1_SameZoneOrdering ==
    (GridDone /\ base_plan.buffer_days >= 0) =>
        \A z \in PlanZones : \A w1 \in PlanWagons : \A w2 \in PlanWagons :
            w1.sequence < w2.sequence =>
                Cell(w2, z).start_date >=
                    AddWorkingDays(Cell(w1, z).end_date, base_plan.buffer_days + 1,
                                   base_plan.working_days)

\* a grid of three wagons with a delayed zone and a buffer, in which the bound
\* is tight for adjacent wagons and slack for the non-adjacent pair
C1_Witness ==
    /\ GridDone
    /\ Len(base_plan.wagons) = 3
    /\ base_plan.buffer_days = 1
    /\ \E z \in PlanZones :
        /\ DictGet(zone_delays, z.id, 0) > 0
        /\ \E w1 \in PlanWagons : \E w2 \in PlanWagons : \E w3 \in PlanWagons :
            /\ w1.sequence = 1 /\ w2.sequence = 2 /\ w3.sequence = 3
            /\ Cell(w3, z).start_date >
                   AddWorkingDays(Cell(w1, z).end_date, 2, base_plan.working_days)
            /\ Cell(w2, z).start_date >=
                   AddWorkingDays(Cell(w1, z).end_date, 2, base_plan.working_days)

\* C2: same-wagon ordering.  For every wagon w and every two zones z1 before z2
\* in sequence order, (w, z2) starts strictly after (w, z1) ends.
C2_SameWagonOrdering ==
    GridDone =>
        \A w \in PlanWagons : \A z1 \in PlanZones : \A z2 \in PlanZones :
            z1.sequence < z2.sequence =>
                Cell(w, z2).start_date > Cell(w, z1).end_date

\* a wagon of duration 1 crossing three zones: consecutive zones on
\* consecutive days of an every-day calendar
C2_Witness ==
    /\ GridDone
    /\ Len(base_plan.zones) = 3
    /\ base_plan.working_days = 0..6
    /\ \E w \in PlanWagons : \E z1 \in PlanZones : \E z2 \in PlanZones : \E z3 \in PlanZones :
        /\ z1.sequence = 1 /\ z2.sequence = 2 /\ z3.sequence = 3
        /\ Cell(w, z2).start_date = Cell(w, z1).end_date + 1
        /\ Cell(w, z3).start_date > Cell(w, z2).end_date

\* C3: every assignment starts and ends on a configured working day, whatever
\* the start date, the calendar, the buffer and the zone delays.
C3_WorkingDays ==
    GridDone =>
        \A i \in 1..Len(assignments) :
            /\ IsWorkingDay(assignments[i].start_date, base_plan.working_days)
            /\ IsWorkingDay(assignments[i].end_date, base_plan.working_days)

\* a plan that starts on a day off: the first cell is moved to a working day
C3_Witness ==
    /\ GridDone
    /\ assignments # <<>>
    /\ ~IsWorkingDay(base_plan.start_date, base_plan.working_days)
    /\ assignments[1].start_date > base_plan.start_date
    /\ \E i \in 1..Len(assignments) : assignments[i].end_date > assignments[i].start_date
    /\ \E z \in PlanZones : DictGet(zone_delays, z.id, 0) > 0

\* the start the rule of C16 gives cell (w, z), 1-based in sequence order, from
\* the ends of the cells before it in the list asgs
StartByRule(asgs, w, z, n_zones, zone) ==
    LET EndOf(w2, z2) == asgs[(w2 - 1) * n_zones + z2].end_date
        after_wagon ==
            IF w > 1
            THEN AddWorkingDays(EndOf(w - 1, z), base_plan.buffer_days + 1,
                                base_plan.working_days)
            ELSE base_plan.start_date
        after_zone ==
            IF z > 1
            THEN AddWorkingDays(EndOf(w, z - 1), 1, base_plan.working_days)
            ELSE base_plan.start_date
        latest == Max2(base_plan.start_date, Max2(after_wagon, after_zone))
        delayed == AddWorkingDays(latest, DictGet(zone_delays, zone.id, 0),
                                  base_plan.working_days)
    IN NextWorkingDay(delayed, base_plan.working_days)

NoDelays == \A id \in DOMAIN zone_delays : zone_delays[id] = 0

\* C16: the grid holds exactly one assignment per (wagon, zone) pair, wagons
\* outermost and zones innermost, both in sequence order.  Each cell starts at
\* the latest of the plan start date, the previous wagon's end in the zone
\* advanced by buffer_days + 1 working days and the wagon's end in the previous
\* zone advanced by 1 working day, then advanced by the zone's delay and moved
\* to a working day; it ends at its start advanced by duration_days - 1 working
\* days.  With zones Z1..Z3, two trades of 5 days, no buffer and a Monday start
\* on Mon-Fri, W1 takes working days 1-5, 6-10, 11-15 and W2 takes 6-10 in Z1.
C16_GridRule ==
    GridDone =>
        LET sorted_wagons == SortedBySequence(base_plan.wagons)
            sorted_zones == SortedBySequence(base_plan.zones)
            n_wagons == Len(sorted_wagons)
            n_zones == Len(sorted_zones)
        IN /\ Len(assignments) = n_wagons * n_zones
           /\ \A w \in 1..n_wagons : \A z \in 1..n_zones :
                  LET a == assignments[(w - 1) * n_zones + z]
                  IN /\ a.wagon_id = sorted_wagons[w].id
                     /\ a.zone_id = sorted_zones[z].id
                     /\ a.duration_days = sorted_wagons[w].duration_days
                     /\ a.start_date = StartByRule(assignments, w, z, n_zones,
                                                   sorted_zones[z])
                     /\ a.end_date = AddWorkingDays(a.start_date, a.duration_days - 1,
                                                    base_plan.working_days)
           /\ (base_plan = FiveDayPlan /\ NoDelays) =>
                  /\ <<assignments[1].start_date, assignments[1].end_date>> = <<0, 4>>
                  /\ <<assignments[2].start_date, assignments[2].end_date>> = <<7, 11>>
                  /\ <<assignments[3].start_date, assignments[3].end_date>> = <<14, 18>>
                  /\ <<assignments[4].start_date, assignments[4].end_date>> = <<7, 11>>

\* the grid of the five-day example: six cells, the fourth is W2 in Z1 and
\* starts on the Monday after W1 left Z1
C16_Witness ==
    /\ GridDone
    /\ base_plan = FiveDayPlan
    /\ NoDelays
    /\ Len(assignments) = 6
    /\ assignments[4].wagon_id = WagonId(2)
    /\ assignments[4].zone_id = ZoneId(1)
    /\ assignments[4].start_date = 7

(***************************************************************************)
(* SpecStacking: the Stacking Detector applied to bounded assignment lists *)
(***************************************************************************)
DateRanges == { r \in (0..MaxDate) \X (0..MaxDate) : r[1] <= r[2] }

AssignmentList(n, zs, rs) ==
    [i \in 1..n |-> [wagon_id |-> WagonId(i),
                     wagon_name |-> "Trade " \o ToString(i),
                     zone_id |-> zs[i],
                     zone_name |-> "Zone " \o zs[i],
                     period |-> i - 1,
                     start_date |-> rs[i][1],
                     end_date |-> rs[i][2],
                     duration_days |-> rs[i][2] - rs[i][1] + 1]]

InitStacking ==
    /\ \E n \in 0..MaxAssignments :
       \E zs \in [1..n -> {ZoneId(1), ZoneId(2)}], rs \in [1..n -> DateRanges] :
           assignments = AssignmentList(n, zs, rs)
    /\ base_plan = Plan(<<>>, <<>>, 1, 0, 0..6, 0)
    /\ zone_delays = <<>>
    /\ today = 0
    /\ grid_calls = <<>>
    /\ day_call = NoDayCall
    /\ conflicts = <<>>
    /\ pc = "stacking_input"
    /\ WhatIfIdle
    /\ MCIdle
    /\ CompareIdle

Detect ==
    /\ pc = "stacking_input"
    /\ conflicts' = DetectStacking(assignments)
    /\ pc' = "stacking_done"
    /\ UNCHANGED <<grid_calls, day_call, base_plan, today, zone_delays, assignments, whatif_vars, mc_vars,
                   compare_vars>>

NextStacking == Detect

SpecStacking == InitStacking /\ [][NextStacking]_vars

\* the conflicts reported for the pair of assignments i, j
ReportsOf(i, j) ==
    { k \in 1..Len(conflicts) :
        conflicts[k].trades \in { <<assignments[i].wagon_name, assignments[j].wagon_name>>,
                                  <<assignments[j].wagon_name, assignments[i].wagon_name>> } }

Intersect(a, b) ==
    \E d \in 0..MaxDate : a.start_date <= d /\ d <= a.end_date
                          /\ b.start_date <= d /\ d <= b.end_date

\* C4: a pair of assignments is reported iff the two share a zone id and their
\* inclusive date ranges intersect; such a pair is reported exactly once, with
\* the window [max of the starts, min of the ends] and the smaller period.
C4_StackingSoundness ==
    pc = "stacking_done" =>
        \A i \in 1..Len(assignments) : \A j \in 1..Len(assignments) :
            i < j =>
                LET a == assignments[i]
                    b == assignments[j]
                IN IF a.zone_id = b.zone_id /\ Intersect(a, b)
                   THEN /\ Cardinality(ReportsOf(i, j)) = 1
                        /\ \A k \in ReportsOf(i, j) :
                            /\ conflicts[k].zone_id = a.zone_id
                            /\ conflicts[k].start_date = Max2(a.start_date, b.start_date)
                            /\ conflicts[k].end_date = Min2(a.end_date, b.end_date)
                            /\ conflicts[k].period = Min2(a.period, b.period)
                   ELSE ReportsOf(i, j) = {}

\* W1 ends the day W2 starts, in the same zone: flagged with a one-day window,
\* while a third assignment in another zone over the same days is not
C4_Witness ==
    /\ pc = "stacking_done"
    /\ Len(assignments) = 3
    /\ assignments[1].zone_id = assignments[2].zone_id
    /\ assignments[3].zone_id # assignments[1].zone_id
    /\ assignments[1].start_date < assignments[1].end_date
    /\ assignments[1].end_date = assignments[2].start_date
    /\ assignments[3].start_date = assignments[1].start_date
    /\ Len(conflicts) = 1
    /\ conflicts[1].start_date = conflicts[1].end_date
    /\ conflicts[1].start_date = assignments[2].start_date

(***************************************************************************)
(* Properties of the working-day helpers (SpecDays)                        *)
(***************************************************************************)
DayCallEnded == day_call.at \in {"returned", "raised"}

\* no working day from date on, up to date.max
NoWorkingDayFrom(date) ==
    \A x \in date..LastDate : ~IsWorkingDay(x, base_plan.working_days)

\* what the Grid Scheduler's date arithmetic gives for the call
ExpectedDate(call) ==
    IF call.name = "_next_working_day"
    THEN NextWorkingDay(base_plan.start_date, base_plan.working_days)
    ELSE AddWorkingDays(call.start, call.days, base_plan.working_days)

\* C30: simulate_what_if, simulate_monte_carlo and compare_scenarios end, with
\* a result or an error, for every request the schema accepts, whatever the
\* working_days list (empty, or without a weekday of 0..6) and the start date:
\* every call of _next_working_day and _add_working_days ends.  It ends by
\* returning the date of the Grid Scheduler's date arithmetic or, when a loop
\* steps past date.max, by raising OverflowError, which is how a call on a
\* list without a weekday of 0..6 that enters a loop ends.
C30_HelpersEnd ==
    /\ <>DayCallEnded
    /\ [](day_call.at = "returned" => ReturnValue(day_call) = ExpectedDate(day_call))
    /\ []((day_call.at \in {"while", "snap"} /\ NoWorkingDayFrom(base_plan.start_date))
             => <>(day_call.at = "raised"))

\* C30 as stated: the helpers always return
C30_HelpersAlwaysReturn ==
    /\ <>(day_call.at = "returned")
    /\ [](day_call.at # "raised")

\* _next_working_day on the empty working_days list, ended by OverflowError
\* after it stepped from the start date to date.max
C30_Witness ==
    /\ pc = "day_call"
    /\ base_plan.working_days = {}
    /\ base_plan.start_date = 0
    /\ day_call = [name |-> "_next_working_day", at |-> "raised", d |-> LastDate]

====
